---- MODULE Spec2Model ----
(***************************************************************************)
(* Model of the TCRS document processor: the HTTP-triggered handler        *)
(* process_documents (function_app.py), the PDF assembly pipeline          *)
(* (pdf_processor.py), the stamp placement, the raster stacking            *)
(* (tiff_converter.py) and the error sanitisation (validators.py).         *)
(*                                                                         *)
(* Texts are sequences of one-character strings, so that the regular       *)
(* expressions of sanitize_error_message act on characters as re.sub does. *)
(***************************************************************************)
EXTENDS Integers, Sequences, FiniteSets, TLC

\* ------------------------------------------------------------------------
\* Texts that the code raises, answers or substitutes
\* ------------------------------------------------------------------------
MSG_EMPTY_BODY ==
    <<"R", "e", "q", "u", "e", "s", "t", " ", "b", "o", "d", "y", " ", "i", "s", " ", "e", "m", "p", "t", "y">>
MSG_INVALID_FORMAT ==
    <<"I", "n", "v", "a", "l", "i", "d", " ", "r", "e", "q", "u", "e", "s", "t", " ", "f", "o", "r", "m", "a", "t">>
MSG_PARSE_FAILED ==
    <<"F", "a", "i", "l", "e", "d", " ", "t", "o", " ", "p", "a", "r", "s", "e", " ", "r", "e", "q", "u", "e", "s", "t">>
MSG_INTERNAL ==
    <<"I", "n", "t", "e", "r", "n", "a", "l", " ", "p", "r", "o", "c", "e", "s", "s", "i", "n", "g", " ", "e", "r", "r", "o", "r">>
MSG_TCRS_ENV ==
    <<"T", "C", "R", "S", "_", "A", "P", "I", "_", "B", "A", "S", "E", "_", "U", "R", "L", " ", "a", "n", "d", " ", "I", "N", "T", "E", "R", "N", "A", "L", "_", "F", "U", "N", "C", "T", "I", "O", "N", "_", "K", "E", "Y", " ", "m", "u", "s", "t", " ", "b", "e", " ", "s", "e", "t">>
MSG_BLOB_ENV ==
    <<"A", "Z", "U", "R", "E", "_", "S", "T", "O", "R", "A", "G", "E", "_", "C", "O", "N", "N", "E", "C", "T", "I", "O", "N", "_", "S", "T", "R", "I", "N", "G", " ", "m", "u", "s", "t", " ", "b", "e", " ", "s", "e", "t">>
MSG_FETCH ==
    <<"F", "a", "i", "l", "e", "d", " ", "t", "o", " ", "f", "e", "t", "c", "h", " ", "r", "e", "q", "u", "e", "s", "t", " ", "d", "a", "t", "a", ":", " ">>
MSG_DOWNLOAD ==
    <<"F", "a", "i", "l", "e", "d", " ", "t", "o", " ", "d", "o", "w", "n", "l", "o", "a", "d", " ", "P", "D", "F", ":", " ">>
MSG_GL_PAGE ==
    <<"F", "a", "i", "l", "e", "d", " ", "t", "o", " ", "g", "e", "n", "e", "r", "a", "t", "e", " ", "G", "L", " ", "c", "o", "d", "i", "n", "g", " ", "p", "a", "g", "e", ":", " ">>
MSG_MERGE ==
    <<"F", "a", "i", "l", "e", "d", " ", "t", "o", " ", "m", "e", "r", "g", "e", " ", "P", "D", "F", "s", ":", " ">>
MSG_STAMP ==
    <<"F", "a", "i", "l", "e", "d", " ", "t", "o", " ", "a", "d", "d", " ", "s", "t", "a", "m", "p", " ", "t", "o", " ", "P", "D", "F", ":", " ">>
MSG_PDF_TO_IMAGES ==
    <<"F", "a", "i", "l", "e", "d", " ", "t", "o", " ", "c", "o", "n", "v", "e", "r", "t", " ", "P", "D", "F", " ", "t", "o", " ", "i", "m", "a", "g", "e", "s", ":", " ">>
MSG_NO_PAGES ==
    <<"N", "o", " ", "p", "a", "g", "e", "s", " ", "f", "o", "u", "n", "d", " ", "i", "n", " ", "P", "D", "F", " ", "d", "o", "c", "u", "m", "e", "n", "t">>
MSG_TO_TIFF ==
    <<"F", "a", "i", "l", "e", "d", " ", "t", "o", " ", "c", "o", "n", "v", "e", "r", "t", " ", "i", "m", "a", "g", "e", "s", " ", "t", "o", " ", "T", "I", "F", "F", ":", " ">>
MSG_SINGLE_TIFF ==
    <<"F", "a", "i", "l", "e", "d", " ", "t", "o", " ", "c", "r", "e", "a", "t", "e", " ", "s", "i", "n", "g", "l", "e", "-", "p", "a", "g", "e", " ", "T", "I", "F", "F", ":", " ">>
MSG_UPLOAD ==
    <<"F", "a", "i", "l", "e", "d", " ", "t", "o", " ", "u", "p", "l", "o", "a", "d", " ", "d", "o", "c", "u", "m", "e", "n", "t", " ", "t", "o", " ", "b", "l", "o", "b", " ", "s", "t", "o", "r", "a", "g", "e", ":", " ">>
MSG_STATUS ==
    <<"F", "a", "i", "l", "e", "d", " ", "t", "o", " ", "u", "p", "d", "a", "t", "e", " ", "d", "o", "c", "u", "m", "e", "n", "t", " ", "g", "e", "n", "e", "r", "a", "t", "i", "o", "n", " ", "s", "t", "a", "t", "u", "s", ":", " ">>
PH_FILE_PATH ==
    <<"[", "F", "I", "L", "E", "_", "P", "A", "T", "H", "]">>
PH_URL ==
    <<"[", "U", "R", "L", "]">>
PH_REDACTED ==
    <<"A", "c", "c", "o", "u", "n", "t", "K", "e", "y", "=", "[", "R", "E", "D", "A", "C", "T", "E", "D", "]">>
LIT_ACCOUNT_KEY ==
    <<"A", "c", "c", "o", "u", "n", "t", "K", "e", "y", "=">>
LIT_BLOB_HOST ==
    <<"b", "l", "o", "b", ".", "c", "o", "r", "e", ".", "w", "i", "n", "d", "o", "w", "s", ".", "n", "e", "t">>
UNKNOWN_ID ==
    <<"u", "n", "k", "n", "o", "w", "n">>
LIT_FILE_SCHEME ==
    <<"f", "i", "l", "e", ":", "/", "/", "/">>
LIT_CONSOLIDATED ==
    <<"_", "c", "o", "n", "s", "o", "l", "i", "d", "a", "t", "e", "d", "_">>
LIT_DOCUMENT ==
    <<"_", "d", "o", "c", "u", "m", "e", "n", "t", "_">>
EXT_PDF ==
    <<".", "p", "d", "f">>
EXT_TIFF ==
    <<".", "t", "i", "f", "f">>
REQ_ID_1 ==
    <<"2", "0", "2", "4", "1", "2", "1", "5", "0", "0", "0", "1">>
URL_LOCAL ==
    <<"f", "i", "l", "e", ":", "/", "/", "/", "t", "m", "p", "/", "i", "n", "v", "o", "i", "c", "e", ".", "p", "d", "f">>
URL_BLOB ==
    <<"h", "t", "t", "p", "s", ":", "/", "/", "a", "c", "c", "t", ".", "b", "l", "o", "b", ".", "c", "o", "r", "e", ".", "w", "i", "n", "d", "o", "w", "s", ".", "n", "e", "t", "/", "t", "c", "r", "s", "-", "d", "o", "c", "u", "m", "e", "n", "t", "s", "/", "c", "o", "/", "2", "0", "2", "4", "/", "i", "n", "v", "o", "i", "c", "e", ".", "p", "d", "f">>
TXT_EOF ==
    <<"E", "O", "F", " ", "m", "a", "r", "k", "e", "r", " ", "n", "o", "t", " ", "f", "o", "u", "n", "d">>
TXT_PATH ==
    <<"c", "a", "n", "n", "o", "t", " ", "o", "p", "e", "n", " ", "/", "t", "m", "p", "/", "w", "o", "r", "k", "/", "a", ".", "p", "d", "f">>
TXT_HTTP_500 ==
    <<"5", "0", "0">>
TXT_JSON ==
    <<"I", "n", "v", "a", "l", "i", "d", " ", "J", "S", "O", "N", ":", " ", "e", "x", "p", "e", "c", "t", "e", "d", " ", "v", "a", "l", "u", "e", " ", "a", "t", " ", "l", "i", "n", "e", " ", "1", " ", "c", "o", "l", "u", "m", "n", " ", "1">>
TXT_PATTERN ==
    <<"S", "t", "r", "i", "n", "g", " ", "s", "h", "o", "u", "l", "d", " ", "m", "a", "t", "c", "h", " ", "p", "a", "t", "t", "e", "r", "n", ",", " ", "s", "e", "e", " ", "h", "t", "t", "p", "s", ":", "/", "/", "e", "r", "r", "o", "r", "s", ".", "p", "y", "d", "a", "n", "t", "i", "c", ".", "d", "e", "v", "/", "2", ".", "5", "/", "v", "/", "s", "t", "r", "i", "n", "g", "_", "p", "a", "t", "t", "e", "r", "n", "_", "m", "i", "s", "m", "a", "t", "c", "h">>
MSG_UNKNOWN_TYPE ==
    <<"U", "n", "k", "n", "o", "w", "n", " ", "f", "i", "l", "e", " ", "t", "y", "p", "e", ":", " ">>
FT_CONSOLIDATED_PDF ==
    <<"c", "o", "n", "s", "o", "l", "i", "d", "a", "t", "e", "d", "_", "p", "d", "f">>
FT_TIFF_IMAGE ==
    <<"t", "i", "f", "f", "_", "i", "m", "a", "g", "e">>
FT_THUMBNAIL ==
    <<"t", "h", "u", "m", "b", "n", "a", "i", "l">>
FOLDER_CLOSED ==
    <<"c", "o", "/", "2", "0", "2", "4", "/">>
FOLDER_OPEN ==
    <<"c", "o", "/", "2", "0", "2", "4">>
URL_FLAT ==
    <<"h", "t", "t", "p", "s", ":", "/", "/", "a", "c", "c", "t", ".", "b", "l", "o", "b", ".", "c", "o", "r", "e", ".", "w", "i", "n", "d", "o", "w", "s", ".", "n", "e", "t", "/", "t", "c", "r", "s", "-", "d", "o", "c", "u", "m", "e", "n", "t", "s", "/", "i", "n", "v", "o", "i", "c", "e", ".", "p", "d", "f">>
URL_HOST_ONLY ==
    <<"h", "t", "t", "p", "s", ":", "/", "/", "a", "c", "c", "t", ".", "b", "l", "o", "b", ".", "c", "o", "r", "e", ".", "w", "i", "n", "d", "o", "w", "s", ".", "n", "e", "t">>
URL_QUERY ==
    <<"h", "t", "t", "p", "s", ":", "/", "/", "a", "c", "c", "t", ".", "b", "l", "o", "b", ".", "c", "o", "r", "e", ".", "w", "i", "n", "d", "o", "w", "s", ".", "n", "e", "t", "/", "t", "c", "r", "s", "-", "d", "o", "c", "u", "m", "e", "n", "t", "s", "/", "c", "o", "/", "i", "n", "v", "o", "i", "c", "e", ".", "p", "d", "f", "?", "s", "v", "=", "2", "0", "2", "4", "&", "s", "r", "=", "b", "/", "c">>
URL_BARE ==
    <<"i", "n", "v", "o", "i", "c", "e", ".", "p", "d", "f">>
URL_DOUBLE ==
    <<"h", "t", "t", "p", "s", ":", "/", "/", "a", "c", "c", "t", ".", "b", "l", "o", "b", ".", "c", "o", "r", "e", ".", "w", "i", "n", "d", "o", "w", "s", ".", "n", "e", "t", "/", "t", "c", "r", "s", "-", "d", "o", "c", "u", "m", "e", "n", "t", "s", "/", "/", "i", "n", "v", "o", "i", "c", "e", ".", "p", "d", "f">>
REQ_ID_2 ==
    <<"2", "0", "2", "5", "0", "1", "0", "7", "0", "0", "4", "2">>
TS_BASE ==
    <<"2", "0", "2", "4", "1", "2", "1", "5", "_", "1", "0", "3", "0", "0">>
MSG_NO_IMAGES_PROVIDED ==
    <<"N", "o", " ", "i", "m", "a", "g", "e", "s", " ", "p", "r", "o", "v", "i", "d", "e", "d", " ", "f", "o", "r", " ", "T", "I", "F", "F", " ", "c", "o", "n", "v", "e", "r", "s", "i", "o", "n">>
MSG_NO_IMAGES ==
    <<"N", "o", " ", "i", "m", "a", "g", "e", "s", " ", "t", "o", " ", "c", "o", "m", "b", "i", "n", "e">>
TXT_DISK ==
    <<"[", "E", "r", "r", "n", "o", " ", "2", "8", "]", " ", "N", "o", " ", "s", "p", "a", "c", "e", " ", "l", "e", "f", "t", " ", "o", "n", " ", "d", "e", "v", "i", "c", "e">>

\* ------------------------------------------------------------------------
\* src/utils/validators.py : sanitize_error_message
\* ------------------------------------------------------------------------
Letters ==
    {"a","b","c","d","e","f","g","h","i","j","k","l","m","n","o","p","q","r",
     "s","t","u","v","w","x","y","z","A","B","C","D","E","F","G","H","I","J",
     "K","L","M","N","O","P","Q","R","S","T","U","V","W","X","Y","Z"}

Whitespace ==
    {" ", "\t", "\n", "\r", "\f"}

\* s has the literal lit at index i
PrefixAt(s, i, lit) ==
    /\ i + Len(lit) - 1 <= Len(s)
    /\ \A k \in 1..Len(lit) : s[i + k - 1] = lit[k]

\* the least element of a non-empty set of integers
Min(S) ==
    CHOOSE x \in S : \A y \in S : x <= y

\* end (exclusive) of the greedy run of characters outside stop that starts at i
RunEnd(s, i, stop) ==
    LET stops == {j \in i..Len(s) : s[j] \in stop} IN
    IF stops = {} THEN Len(s) + 1 ELSE Min(stops)

\* concatenation of pieces[lo], ..., pieces[hi]
RECURSIVE Concat(_, _, _)
Concat(pieces, lo, hi) ==
    IF lo > hi THEN <<>>
    ELSE IF lo = hi THEN pieces[lo]
    ELSE LET mid == (lo + hi) \div 2 IN
         Concat(pieces, lo, mid) \o Concat(pieces, mid + 1, hi)

\* re.sub scans from the left and takes non-overlapping matches: of the
\* positions cands where the pattern matches (up to endOf, exclusive), j is
\* taken unless a taken match that starts before j reaches over it
RECURSIVE IsTaken(_, _, _)
IsTaken(cands, endOf, j) ==
    \A i \in cands : (i < j /\ endOf[i] > j) => ~IsTaken(cands, endOf, i)

\* re.sub(pattern, placeholder, s) for a pattern given by cands and endOf
ReSub(s, cands, endOf, placeholder) ==
    LET starts == {j \in cands : IsTaken(cands, endOf, j)}
        pieces == [i \in 1..Len(s) |->
                      IF i \in starts THEN placeholder
                      ELSE IF \E k \in starts : k < i /\ i < endOf[k] THEN <<>>
                      ELSE <<s[i]>>]
    IN  Concat(pieces, 1, Len(s))

\* re.sub(r'[A-Za-z]:\\[^\\s]+', '[FILE_PATH]', s): the class [^\\s] excludes
\* the backslash and the letter s
SubDrivePath(s) ==
    LET cands == {i \in 1..Len(s) :
                     /\ s[i] \in Letters
                     /\ PrefixAt(s, i + 1, <<":", "\\">>)
                     /\ i + 3 <= Len(s)
                     /\ s[i + 3] \notin {"\\", "s"}}
        endOf == [i \in cands |-> RunEnd(s, i + 3, {"\\", "s"})]
    IN  ReSub(s, cands, endOf, PH_FILE_PATH)

\* re.sub(r'/[^\s]+', '[FILE_PATH]', s)
SubSlashPath(s) ==
    LET cands == {i \in 1..Len(s) :
                     /\ s[i] = "/"
                     /\ i + 1 <= Len(s)
                     /\ s[i + 1] \notin Whitespace}
        endOf == [i \in cands |-> RunEnd(s, i + 1, Whitespace)]
    IN  ReSub(s, cands, endOf, PH_FILE_PATH)

\* the lookahead .*blob\.core\.windows\.net at index p ('.' stops at a newline)
BlobHostAhead(s, p) ==
    \E j \in p..Len(s) :
        /\ PrefixAt(s, j, LIT_BLOB_HOST)
        /\ \A k \in p..(j - 1) : s[k] # "\n"

\* index after 'http://' or 'https://' when s has one of them at i, else 0
SchemeEnd(s, i) ==
    IF PrefixAt(s, i, <<"h", "t", "t", "p", ":", "/", "/">>) THEN i + 7
    ELSE IF PrefixAt(s, i, <<"h", "t", "t", "p", "s", ":", "/", "/">>) THEN i + 8
    ELSE 0

\* re.sub(r'https?://(?!.*blob\.core\.windows\.net)[^\s]+', '[URL]', s)
SubUrl(s) ==
    LET cands == {i \in 1..Len(s) :
                     LET p == SchemeEnd(s, i) IN
                     /\ p # 0
                     /\ p <= Len(s)
                     /\ s[p] \notin Whitespace
                     /\ ~BlobHostAhead(s, p)}
        endOf == [i \in cands |-> RunEnd(s, SchemeEnd(s, i), Whitespace)]
    IN  ReSub(s, cands, endOf, PH_URL)

\* re.sub(r'AccountKey=[^;]+', 'AccountKey=[REDACTED]', s)
SubAccountKey(s) ==
    LET cands == {i \in 1..Len(s) :
                     /\ PrefixAt(s, i, LIT_ACCOUNT_KEY)
                     /\ i + Len(LIT_ACCOUNT_KEY) <= Len(s)
                     /\ s[i + Len(LIT_ACCOUNT_KEY)] # ";"}
        endOf == [i \in cands |-> RunEnd(s, i + Len(LIT_ACCOUNT_KEY), {";"})]
    IN  ReSub(s, cands, endOf, PH_REDACTED)

sanitize_error_message(error_message) ==
    SubAccountKey(SubUrl(SubSlashPath(SubDrivePath(error_message))))

\* ------------------------------------------------------------------------
\* Optional values (Python None / a value)
\* ------------------------------------------------------------------------
None ==
    <<>>

Some(x) ==
    <<x>>

\* a call either returns a value or raises an exception with a text
Return(v) ==
    [ok |-> TRUE, value |-> v]

Raise(text) ==
    [ok |-> FALSE, error |-> text]

\* ------------------------------------------------------------------------
\* Text helpers (str.startswith, str.strip, str.split, str.join)
\* ------------------------------------------------------------------------
\* first index >= from at which lit occurs in s, 0 when it does not occur
IndexOf(s, lit, from) ==
    LET hits == {i \in from..(Len(s) - Len(lit) + 1) : PrefixAt(s, i, lit)} IN
    IF hits = {} THEN 0 ELSE Min(hits)

StartsWith(s, lit) ==
    PrefixAt(s, 1, lit)

EndsWith(s, lit) ==
    Len(lit) <= Len(s) /\ PrefixAt(s, Len(s) - Len(lit) + 1, lit)

RECURSIVE StripLeft(_, _)
StripLeft(s, ch) ==
    IF s # <<>> /\ Head(s) = ch THEN StripLeft(Tail(s), ch) ELSE s

RECURSIVE StripRight(_, _)
StripRight(s, ch) ==
    IF s # <<>> /\ s[Len(s)] = ch THEN StripRight(SubSeq(s, 1, Len(s) - 1), ch) ELSE s

Strip(s, ch) ==
    StripRight(StripLeft(s, ch), ch)

\* s.split(ch): the segments between the occurrences of ch (one segment for '')
RECURSIVE Split(_, _)
Split(s, ch) ==
    LET k == IndexOf(s, <<ch>>, 1) IN
    IF k = 0 THEN <<s>>
    ELSE <<SubSeq(s, 1, k - 1)>> \o Split(SubSeq(s, k + 1, Len(s)), ch)

RECURSIVE Join(_, _)
Join(parts, ch) ==
    IF parts = <<>> THEN <<>>
    ELSE IF Len(parts) = 1 THEN parts[1]
    ELSE parts[1] \o <<ch>> \o Join(Tail(parts), ch)

\* ------------------------------------------------------------------------
\* src/storage/blob_client.py : folder and blob names
\* ------------------------------------------------------------------------
\* urlparse(url).path for scheme://netloc/path?query#fragment and for a bare path
UrlPath(url) ==
    LET sep   == IndexOf(url, <<":", "/", "/">>, 1)
        from  == IF sep = 0 THEN 1 ELSE sep + 3
        slash == IF sep = 0 THEN 1 ELSE IndexOf(url, <<"/">>, from)
        q     == IndexOf(url, <<"?">>, from)
        h     == IndexOf(url, <<"#">>, from)
        stop  == IF q # 0 /\ (h = 0 \/ q < h) THEN q
                 ELSE IF h # 0 THEN h
                 ELSE Len(url) + 1
    IN  IF slash = 0 \/ slash >= stop THEN <<>>
        ELSE SubSeq(url, slash, stop - 1)

\* extract_folder_from_url dropping the file name only, not the container
extract_folder_from_url_KeepsContainer(blob_url) ==
    LET path_parts == Split(Strip(UrlPath(blob_url), "/"), "/") IN
    IF Len(path_parts) >= 2
    THEN Join(SubSeq(path_parts, 1, Len(path_parts) - 1), "/") \o <<"/">>
    ELSE <<>>

extract_folder_from_url(blob_url) ==
    LET path_parts == Split(Strip(UrlPath(blob_url), "/"), "/") IN
    IF Len(path_parts) >= 2
    THEN LET folder_parts == SubSeq(path_parts, 2, Len(path_parts) - 1) IN
         IF folder_parts # <<>> THEN Join(folder_parts, "/") \o <<"/">> ELSE <<>>
    ELSE <<>>

FileTypes ==
    {"consolidated_pdf", "tiff_image"}

\* the characters of a file type
TypeText(file_type) ==
    CASE file_type = "consolidated_pdf" -> FT_CONSOLIDATED_PDF
      [] file_type = "tiff_image"       -> FT_TIFF_IMAGE
      [] OTHER                          -> FT_THUMBNAIL

\* generate_blob_name joining folder and file name without a separator
generate_blob_name_NoSeparator(request_id, file_type, timestamp, folder) ==
    IF file_type \notin FileTypes
    THEN Raise(MSG_UNKNOWN_TYPE \o TypeText(file_type))
    ELSE Return(folder \o request_id
                \o (IF file_type = "consolidated_pdf" THEN LIT_CONSOLIDATED ELSE LIT_DOCUMENT)
                \o timestamp
                \o (IF file_type = "consolidated_pdf" THEN EXT_PDF ELSE EXT_TIFF))

\* lines 77-90: the name of the blob, or the ValueError for an unknown type
generate_blob_name(request_id, file_type, timestamp, folder) ==
    IF file_type \notin FileTypes
    THEN Raise(MSG_UNKNOWN_TYPE \o TypeText(file_type))
    ELSE LET file_name == IF file_type = "consolidated_pdf"
                          THEN request_id \o LIT_CONSOLIDATED \o timestamp \o EXT_PDF
                          ELSE request_id \o LIT_DOCUMENT \o timestamp \o EXT_TIFF
             prefix    == IF folder # <<>> /\ ~EndsWith(folder, <<"/">>)
                          THEN folder \o <<"/">>
                          ELSE folder
         IN  Return(IF prefix # <<>> THEN prefix \o file_name ELSE file_name)

\* the URL upload_document returns: the SAS URL, or the bare blob URL when the
\* token generation failed (generate_sas_url's fallback)
generate_sas_url(blob_name, token_ok) ==
    [blob_name |-> blob_name, sas_token |-> IF token_ok THEN Some("r") ELSE None]

\* ------------------------------------------------------------------------
\* src/processors/pdf_processor.py : documents as page sequences
\* ------------------------------------------------------------------------
\* reportlab.lib.pagesizes.letter, in points
PageWidth ==
    612

PageHeight ==
    792

safe_margin ==
    40

min_y ==
    50

StartDrop ==
    150

\* a page: the document it came from, its position there, its media box in
\* points, and what was merged on it
Page(src, idx, box) ==
    [src |-> src, idx |-> idx, box |-> box, overlays |-> <<>>]

Letter ==
    <<PageWidth, PageHeight>>

\* the bytes of a document of n pages, each of the given box
Pdf(src, n, box) ==
    [i \in 1..n |-> Page(src, i, box)]

\* PdfWriter.add_page for each page of a reader, in the reader's order
RECURSIVE AddPages(_, _)
AddPages(writer, pages) ==
    IF pages = <<>> THEN writer
    ELSE AddPages(Append(writer, Head(pages)), Tail(pages))

\* str.lower() on the position argument
Lower(position) ==
    IF position \in {"left", "Left", "LEFT"} THEN "left"
    ELSE IF position \in {"right", "Right", "RIGHT"} THEN "right"
    ELSE position

\* lines 255-285: the start position of the vertical text
StampStart(text_width, position) ==
    LET y_start == PageHeight - StartDrop IN
    IF Lower(position) = "left"
    THEN IF y_start - text_width < min_y THEN min_y + text_width ELSE y_start
    ELSE IF y_start - text_width < min_y THEN PageHeight - 50 ELSE y_start

\* lines 259-266, 291-295: the text drawn by the stamp canvas
Stamp(text_width, position) ==
    [x_position |-> IF Lower(position) = "left" THEN safe_margin
                    ELSE PageWidth - safe_margin,
     rotation   |-> IF Lower(position) = "left" THEN 90 ELSE 270,
     y_start    |-> StampStart(text_width, position),
     text_width |-> text_width]

\* lines 306-310: page 1 gets the stamp merged, every page is added in order
RECURSIVE StampPages(_, _, _, _)
StampPages(writer, pages, i, stamp) ==
    IF i > Len(pages) THEN writer
    ELSE LET page == IF i = 1
                     THEN [pages[i] EXCEPT !.overlays = Append(@, stamp)]
                     ELSE pages[i]
         IN  StampPages(Append(writer, page), pages, i + 1, stamp)

\* add_stamp_to_first_page merging the stamp on every page
add_stamp_to_first_page_EveryPage(pdf_data, text_width, position) ==
    [i \in DOMAIN pdf_data |->
        [pdf_data[i] EXCEPT !.overlays = Append(@, Stamp(text_width, position))]]

add_stamp_to_first_page(pdf_data, text_width, position) ==
    StampPages(<<>>, pdf_data, 1, Stamp(text_width, position))

\* merge_pdfs with the two loops in the other order
merge_pdfs_SignatureFirst(invoice_pdf, signature_pdf) ==
    AddPages(AddPages(<<>>, signature_pdf), invoice_pdf)

\* lines 328-345: invoice pages first, then the signature (ledger) pages
merge_pdfs(invoice_pdf, signature_pdf) ==
    AddPages(AddPages(<<>>, invoice_pdf), signature_pdf)

\* ------------------------------------------------------------------------
\* src/processors/tiff_converter.py : rasterisation and stacking
\* ------------------------------------------------------------------------
dpi ==
    120

max_image_width ==
    2000

PointsPerInch ==
    72

RECURSIVE SumHeights(_)
SumHeights(images) ==
    IF images = <<>> THEN 0 ELSE Head(images).height + SumHeights(Tail(images))

\* MaxWidth taking the width of the first image for the canvas
MaxWidth_First(images) ==
    images[1].width

RECURSIVE MaxWidth(_)
MaxWidth(images) ==
    IF Len(images) = 1 THEN images[1].width
    ELSE LET m == MaxWidth(Tail(images)) IN
         IF Head(images).width > m THEN Head(images).width ELSE m

\* PasteAll going through the list from its end
RECURSIVE PasteAll_LastFirst(_, _, _, _)
PasteAll_LastFirst(images, max_width, y_offset, pastes) ==
    IF images = <<>> THEN pastes
    ELSE LET img      == images[Len(images)]
             x_offset == (max_width - img.width) \div 2
         IN  PasteAll_LastFirst(SubSeq(images, 1, Len(images) - 1), max_width,
                                y_offset + img.height,
                                Append(pastes, [x |-> x_offset, y |-> y_offset,
                                                image |-> img]))

\* lines 26-31: paste each image centred, below the ones pasted before
RECURSIVE PasteAll(_, _, _, _)
PasteAll(images, max_width, y_offset, pastes) ==
    IF images = <<>> THEN pastes
    ELSE LET img      == Head(images)
             x_offset == (max_width - img.width) \div 2
         IN  PasteAll(Tail(images), max_width, y_offset + img.height,
                      Append(pastes, [x |-> x_offset, y |-> y_offset, image |-> img]))

\* combine_images_vertically giving an empty canvas for an empty list
combine_images_vertically_EmptyCanvas(images) ==
    IF images = <<>> THEN Return([width |-> 0, height |-> 0, pastes |-> <<>>])
    ELSE Return([width  |-> MaxWidth(images),
                 height |-> SumHeights(images),
                 pastes |-> PasteAll(images, MaxWidth(images), 0, <<>>)])

combine_images_vertically(images) ==
    IF images = <<>> THEN Raise(MSG_NO_IMAGES)
    ELSE LET total_height == SumHeights(images)
             max_width    == MaxWidth(images)
         IN  Return([width  |-> max_width,
                     height |-> total_height,
                     pastes |-> PasteAll(images, max_width, 0, <<>>)])

\* 2^k mod w
RECURSIVE Pow2Mod(_, _)
Pow2Mod(k, w) ==
    IF k = 0 THEN 1 % w
    ELSE IF k % 2 = 0
         THEN LET x == Pow2Mod(k \div 2, w) IN (x * x) % w
         ELSE (2 * Pow2Mod(k - 1, w)) % w

\* the binary exponent of the double max_image_width / w: the j with
\* 1/2 < max_image_width * 2^j / w <= 1, for a width w above the cap
ScaleExp(w) ==
    CHOOSE j \in 0..8 : /\ max_image_width * 2^(j + 1) > w
                        /\ max_image_width * 2^j <= w

\* the power of two p with p < q <= 2p (1 for q = 1): below q the doubles
\* lie p * 2^-52 apart
Pow2Below(q) ==
    IF q = 1 THEN 1
    ELSE CHOOSE p \in {2^m : m \in 0..14} : p < q /\ q <= 2 * p

\* lines 132-133: int(height * ratio) for ratio = max_image_width / width,
\* both operations in IEEE-754 double precision. The quotient is rounded to
\* 53 bits; when it is rounded down by more than half the spacing of the
\* doubles below an exact product, the product falls short of the integer
\* and int() truncates to the integer below.
ScaledHeight(width, height) ==
    LET q   == (height * max_image_width) \div width
        j   == ScaleExp(width)
        rem == ((max_image_width % width) * Pow2Mod(53 + j, width)) % width
    IN  IF (height * max_image_width) % width # 0 \/ q = 0 THEN q
        ELSE IF 2 * rem >= width THEN q
        ELSE IF q * rem > max_image_width * Pow2Below(q) * 2^j THEN q - 1
        ELSE q

\* lines 116-120: the pixmap of a page at dpi/72; the renderer rounds the
\* scaled page rectangle outwards to whole pixels
PixmapSize(page) ==
    [width  |-> (page.box[1] * dpi + PointsPerInch - 1) \div PointsPerInch,
     height |-> (page.box[2] * dpi + PointsPerInch - 1) \div PointsPerInch]

\* RenderPage narrowing a wide page without rescaling its height
RenderPage_HeightKept(page) ==
    LET pix == PixmapSize(page) IN
    IF pix.width > max_image_width
    THEN [width |-> max_image_width, height |-> pix.height]
    ELSE pix

\* lines 116-138: one page rendered at dpi/72 and narrowed to the width cap
RenderPage(page) ==
    LET pix == PixmapSize(page) IN
    IF pix.width > max_image_width
    THEN [width  |-> max_image_width,
          height |-> ScaledHeight(pix.width, pix.height)]
    ELSE pix

pdf_to_images(pdf_data) ==
    [i \in 1..Len(pdf_data) |-> RenderPage(pdf_data[i])]

\* lines 35-63: the stacked image saved as one TIFF frame
images_to_singlepage_tiff(images) ==
    IF images = <<>> THEN Raise(MSG_SINGLE_TIFF \o MSG_NO_IMAGES_PROVIDED)
    ELSE LET combined == combine_images_vertically(images) IN
         IF ~combined.ok THEN Raise(MSG_SINGLE_TIFF \o combined.error)
         ELSE Return([format      |-> "TIFF",
                      mode        |-> "RGB",
                      compression |-> "jpeg",
                      size        |-> <<combined.value.width, combined.value.height>>,
                      frame       |-> combined.value.pastes])

\* lines 65-76
images_to_tiff(images) ==
    IF images = <<>> THEN Raise(MSG_TO_TIFF \o MSG_NO_IMAGES_PROVIDED)
    ELSE LET r == images_to_singlepage_tiff(images) IN
         IF ~r.ok THEN Raise(MSG_TO_TIFF \o r.error) ELSE r

\* lines 151-168 without the library failures, which the caller's step draws
convert_pdf_to_tiff(pdf_data) ==
    LET images == pdf_to_images(pdf_data) IN
    IF images = <<>> THEN Raise(MSG_NO_PAGES) ELSE images_to_tiff(images)

\* validate_tiff_quality without the check of the colour mode
validate_tiff_quality_FormatOnly(decoded) ==
    IF ~decoded.opens THEN FALSE
    ELSE IF decoded.format # "TIFF" THEN FALSE
    ELSE TRUE

\* lines 176-214: what Image.open makes of the bytes decides the result
validate_tiff_quality(decoded) ==
    IF ~decoded.opens THEN FALSE
    ELSE IF decoded.format # "TIFF" THEN FALSE
    ELSE IF decoded.mode # "RGB" THEN FALSE
    ELSE TRUE

\* ------------------------------------------------------------------------
\* pdf_processor.py : the amounts of generate_gl_coding_page
\* ------------------------------------------------------------------------
\* An amount is a Python float.  The float x is held here exactly, as the
\* pair of integers with  x = mills / 1000 + err / (1000 * 2^60):
\* mills is the decimal value in thousandths and err what binary rounding
\* added to it.  The pair covers the doubles from 2^-8 up to 2^10, whose
\* last bit is worth 2^(b + 8) of those units in the binade of 2^b.
FloatZero ==
    [mills |-> 0, err |-> 0]

\* x >= 2^b
AtLeastPow2(x, b) ==
    LET l == IF b >= 0 THEN x.mills ELSE x.mills * 2^(0 - b)
        r == IF b >= 0 THEN 1000 * 2^b ELSE 1000
    IN  l > r \/ (l = r /\ x.err >= 0)

\* the exponent of the double nearest to x
Binade(x) ==
    CHOOSE b \in (-8)..9 : AtLeastPow2(x, b) /\ ~AtLeastPow2(x, b + 1)

\* IEEE-754 round to nearest, ties to even, of the exact value x to 53 bits
RoundToDouble(x) ==
    IF x = FloatZero THEN x
    ELSE LET b    == Binade(x)
             ulp  == 2^(b + 8)
             G    == 1000 * ulp
             X2   == (2 * ulp * (((x.mills % 1000) * Pow2Mod(51 - b, 1000)) % 1000)
                      + x.err) % (2 * G)
             R    == X2 % G
             down == [x EXCEPT !.err = x.err - R]
             up   == [x EXCEPT !.err = x.err + G - R]
         IN  IF 2 * R < G THEN down
             ELSE IF 2 * R > G THEN up
             ELSE IF X2 >= G THEN up ELSE down

\* float("m/1000"): the amount pydantic makes of the JSON number
ParseAmount(m) ==
    RoundToDouble([mills |-> m, err |-> 0])

\* x + y of two floats
FloatAdd(x, y) ==
    RoundToDouble([mills |-> x.mills + y.mills, err |-> x.err + y.err])

\* f"{x:,.2f}" as a number of cents: the exact value of the float rounded to
\* two decimals, ties to even
FormatCents(x) ==
    LET q == x.mills \div 10
        r == x.mills % 10
    IN  IF r < 5 THEN q
        ELSE IF r > 5 THEN q + 1
        ELSE IF x.err > 0 THEN q + 1
        ELSE IF x.err < 0 THEN q
        ELSE IF q % 2 = 0 THEN q ELSE q + 1

\* the accumulation starting from a total carried in instead of 0
RECURSIVE TotalAmountFrom(_, _)
TotalAmountFrom(start, entries) ==
    IF entries = <<>> THEN start
    ELSE FloatAdd(TotalAmountFrom(start, SubSeq(entries, 1, Len(entries) - 1)),
                  entries[Len(entries)].amount)

\* lines 119, 143: total_amount = 0, then total_amount += entry.amount in order
TotalAmount(entries) ==
    TotalAmountFrom(FloatZero, entries)

\* lines 121-156: the amount cells of the table: one per entry, then the total
generate_gl_coding_page(entries) ==
    [amounts |-> [i \in DOMAIN entries |-> FormatCents(entries[i].amount)],
     total   |-> FormatCents(TotalAmount(entries))]

\* ------------------------------------------------------------------------
\* src/utils/performance.py : PerformanceTracker
\* ------------------------------------------------------------------------
\* d[k] = v on a dict
DictPut(d, k, v) ==
    [x \in DOMAIN d \cup {k} |-> IF x = k THEN v ELSE d[x]]

\* sum(d.values())
RECURSIVE SumValues(_)
SumValues(d) ==
    IF DOMAIN d = {} THEN 0
    ELSE LET k == CHOOSE x \in DOMAIN d : TRUE
         IN  d[k] + SumValues([x \in DOMAIN d \ {k} |-> d[x]])

\* lines 10-12: the two dicts of a new tracker
EmptyTracker ==
    [timings |-> <<>>, start_times |-> <<>>]

\* lines 14-17, with the reading of time.time()
start_timing(tracker, stage, now) ==
    [tracker EXCEPT !.start_times = DictPut(@, stage, now)]

\* lines 19-29
end_timing(tracker, stage, now) ==
    IF stage \notin DOMAIN tracker.start_times THEN tracker
    ELSE [tracker EXCEPT !.timings = DictPut(@, stage, now - tracker.start_times[stage])]

\* lines 44-46
get_total_time(tracker) ==
    SumValues(tracker.timings)

\* lines 62-67
get_performance_data(tracker) ==
    [totalTime |-> get_total_time(tracker), stages |-> tracker.timings]

\* a call of start_timing or end_timing: which, and for which stage
TimingCall(kind, stage) ==
    [kind |-> kind, stage |-> stage]

\* the calls made on a tracker one after the other, all reading the same time
RECURSIVE ApplyTimings(_, _, _)
ApplyTimings(tracker, timing_calls, now) ==
    IF timing_calls = <<>> THEN tracker
    ELSE LET c == Head(timing_calls)
         IN  ApplyTimings(IF c.kind = "start"
                          THEN start_timing(tracker, c.stage, now)
                          ELSE end_timing(tracker, c.stage, now),
                          Tail(timing_calls), now)

\* the invocation taking the tracker of the module (line 71) for its own
PerformanceTracker_Global(i) ==
    0

\* function_app.py line 40: the tracker object invocation i constructs
PerformanceTracker(i) ==
    i

\* ------------------------------------------------------------------------
\* Bounds and input sets
\* ------------------------------------------------------------------------
\* texts for sanitize_error_message: fragments a message can carry, and what
\* stands before and after them
FRAG_WIN_PATH ==
    <<"C", ":", "\\", "U", "s", "e", "r", "s", "\\", "s", "v", "c", "\\", "a", ".", "p", "d", "f">>
FRAG_WIN_DATA ==
    <<"D", ":", "\\", "d", "a", "t", "a", "\\", "i", "n", ".", "p", "d", "f">>
FRAG_UNIX_PATH ==
    <<"/", "t", "m", "p", "/", "w", "o", "r", "k", "/", "a", ".", "p", "d", "f">>
FRAG_INTERNAL_URL ==
    <<"h", "t", "t", "p", ":", "/", "/", "1", "0", ".", "0", ".", "0", ".", "5", ":", "8", "0", "8", "0", "/", "a", "p", "i", "/", "v", "1">>
FRAG_BLOB_URL ==
    <<"h", "t", "t", "p", "s", ":", "/", "/", "a", "c", "c", "t", ".", "b", "l", "o", "b", ".", "c", "o", "r", "e", ".", "w", "i", "n", "d", "o", "w", "s", ".", "n", "e", "t", "/", "d", "o", "c", "s", "/", "a", ".", "p", "d", "f">>
FRAG_KEY ==
    <<"A", "c", "c", "o", "u", "n", "t", "K", "e", "y", "=", "Z", "m", "9", "v", "Y", "m", "F", "y", "=", "=">>
FRAG_KEY_SLASH ==
    <<"A", "c", "c", "o", "u", "n", "t", "K", "e", "y", "=", "Z", "m", "9", "v", "/", "Y", "m", "F", "y", "=", "=">>
FRAG_PLAIN ==
    <<"t", "i", "m", "e", "o", "u", "t">>
PRE_OPEN ==
    <<"c", "a", "n", "n", "o", "t", " ", "o", "p", "e", "n", " ">>
PRE_ERROR ==
    <<"E", "r", "r", "o", "r", ":", " ">>
PRE_CODE ==
    <<"f", "a", "i", "l", "e", "d", " ", "(", "c", "o", "d", "e", " ", "5", ")", " ", "a", "t", " ">>
SUF_FAILED ==
    <<" ", "f", "a", "i", "l", "e", "d">>
SUF_NOT_FOUND ==
    <<" ", "n", "o", "t", " ", "f", "o", "u", "n", "d">>
SUF_ENDPOINT ==
    <<";", "E", "n", "d", "p", "o", "i", "n", "t", "S", "u", "f", "f", "i", "x", "=", "c", "o", "r", "e", ".", "w", "i", "n", "d", "o", "w", "s", ".", "n", "e", "t">>

\* the fragments, each with the parts of it that must not be in the output:
\* the components of a path, the host and path of a URL, the value of a key
Fragments ==
    {[text |-> FRAG_WIN_PATH, pieces |-> {<<"U", "s", "e", "r", "s">>, <<"s", "v", "c">>, <<"a", ".", "p", "d", "f">>}],
     [text |-> FRAG_WIN_DATA, pieces |-> {<<"d", "a", "t", "a">>, <<"i", "n", ".", "p", "d", "f">>}],
     [text |-> FRAG_UNIX_PATH, pieces |-> {<<"t", "m", "p">>, <<"w", "o", "r", "k">>, <<"a", ".", "p", "d", "f">>}],
     [text |-> FRAG_INTERNAL_URL, pieces |-> {<<"1", "0", ".", "0", ".", "0", ".", "5">>, <<"a", "p", "i">>}],
     [text |-> FRAG_BLOB_URL, pieces |-> {}],
     [text |-> FRAG_KEY, pieces |-> {<<"Z", "m", "9", "v", "Y", "m", "F", "y">>}],
     [text |-> FRAG_KEY_SLASH, pieces |-> {<<"Z", "m", "9", "v">>, <<"Y", "m", "F", "y">>}],
     [text |-> FRAG_PLAIN, pieces |-> {}]}

MessagePrefixes ==
    {<<>>, PRE_OPEN, PRE_ERROR, PRE_CODE}

MessageSuffixes ==
    {<<>>, SUF_FAILED, SUF_NOT_FOUND, SUF_ENDPOINT}

MaxInvoicePages ==
    2

MaxLedgerPages ==
    2

MaxClock ==
    1

MaxTextWidth ==
    720

MaxImages ==
    3

MaxRenderPages ==
    2

\* the longest ledger set drawn
MaxLines ==
    3

\* the calls of generate_gl_coding_page made on one processor
MaxRenders ==
    2

\* the last second of the clock
MaxNow ==
    1

\* the invocations running in the worker
Invocations ==
    1..2

\* the requestId of an invocation
PairRequestIds ==
    {REQ_ID_1, REQ_ID_2}

\* the amounts of the line items, in thousandths
LedgerAmounts ==
    {5, 10, 15, 125, 1000, 2675}

\* media boxes in points: letter; a page that renders exactly at the width
\* cap; pages that render wider than the cap
PageBoxes ==
    {<<612, 792>>, <<1200, 900>>, <<1201, 600>>, <<1263, 1263>>, <<1800, 1200>>}

\* arguments of the naming functions
NameRequestIds ==
    {REQ_ID_1, REQ_ID_2}

NameFileTypes ==
    FileTypes \cup {"thumbnail"}

NameFolders ==
    {<<>>, FOLDER_CLOSED, FOLDER_OPEN}

NameUrls ==
    {URL_LOCAL, URL_BLOB, URL_FLAT, URL_HOST_ONLY, URL_QUERY, URL_BARE, URL_DOUBLE}

\* the side argument of add_stamp_to_first_page as callers may spell it
Positions ==
    {"left", "right", "LEFT"}

\* pixel sizes of rendered pages
ImageWidths ==
    {850, 1020, 1275, 2000}

ImageHeights ==
    {1100, 1320, 1651}

RequestIds ==
    {REQ_ID_1}

\* stringWidth of two signature texts: one that fits below the default start
\* position and one that does not
RequestWidths ==
    {225, 650}

InvoiceUrls ==
    {URL_LOCAL, URL_BLOB, URL_QUERY, URL_HOST_ONLY}

\* str(e) of the ValidationError pydantic raises for a body that is not a
\* valid request
ValidationTexts ==
    {TXT_JSON, TXT_PATTERN}

\* texts of the exceptions raised by the libraries and the collaborators
LibTexts ==
    {TXT_EOF, TXT_PATH}

\* what Image.open reports for the bytes handed to validate_tiff_quality
Decodes ==
    {[opens |-> TRUE,  format |-> "TIFF", mode |-> "RGB"],
     [opens |-> TRUE,  format |-> "TIFF", mode |-> "YCbCr"],
     [opens |-> TRUE,  format |-> "JPEG", mode |-> "RGB"],
     [opens |-> FALSE, format |-> "",     mode |-> ""]}

Digits ==
    <<"0", "1", "2", "3", "4", "5", "6", "7", "8", "9">>

\* datetime.now().strftime("%Y%m%d_%H%M%S") for the second `clock` of the model
FormatTimestamp(t) ==
    TS_BASE \o <<Digits[t + 1]>>

\* ------------------------------------------------------------------------
\* State of one invocation of process_documents and of its collaborators
\* ------------------------------------------------------------------------
VARIABLES
    env,                  \* os.environ: which settings the deployment has
    clock,                \* the second in which the workflow starts
    pc,                   \* position of the invocation in process_documents
    request_data,         \* None or the validated DocumentProcessingRequest
    request_id,           \* "unknown" or the validated requestId
    complete_data,        \* None or the data fetched from the TCRS API
    timestamp,            \* workflow local
    folder,               \* workflow local
    invoice_pdf,          \* PDFProcessor.process_documents locals
    gl_coding_pdf,
    concatenated_pdf,
    consolidated_pdf,     \* None or the assembled document
    tiff_data,            \* None or the raster archive
    consolidated_pdf_url, \* None or the URL the first upload returned
    tiff_image_url,       \* None or the URL the second upload returned
    exc,                  \* None or str(e) of the exception being propagated
    status_log,           \* status updates attempted, in order
    calls,                \* stages entered, in order, with their outcome
    blobs,                \* blob container: set of [name, content]
    local_files,          \* files written under local_output
    warnings,             \* warnings logged
    response              \* None or the HTTP response

VARIABLES
    asm_in,               \* None or the arguments drawn for the assembly
    asm_out,              \* None or the document the assembly returned
    asm_err,              \* None or the text of the exception it raised
    stack_in,             \* None or the images drawn for the stacking
    stack_out,            \* None or what combine_images_vertically gave
    stack_single,         \* None or what images_to_singlepage_tiff gave
    stack_tiff            \* None or what images_to_tiff gave

\* one call of TIFFConverter.convert_pdf_to_tiff followed by one call of
\* validate_tiff_quality, with the native handles they hold
VARIABLES
    rs_pc,                \* position in the two calls
    rs_pdf,               \* the pages of the document handed in
    rs_images,            \* the list `images` of pdf_to_images
    rs_open,              \* handles opened and not closed
    rs_calls,             \* the methods of the converter entered so far
    rs_result,            \* None or what convert_pdf_to_tiff returned/raised
    rs_decoded,           \* what Image.open makes of the bytes to validate
    rs_valid              \* None or the result of validate_tiff_quality

\* the naming functions of BlobStorageClient on drawn arguments
VARIABLES
    nm_in,                \* None or the arguments drawn
    nm_blob,              \* None or what generate_blob_name gave
    nm_folder             \* None or what extract_folder_from_url gave

\* generate_gl_coding_page of one PDFProcessor on drawn ledger sets
VARIABLES
    ld_in,                \* None or complete_data.glCodingData of the last call
    ld_page,              \* None or the amounts the last page shows
    ld_renders            \* the calls made so far

\* two invocations of process_documents in one worker and what they share
VARIABLES
    pr_now,               \* time.time() and datetime.now(), in seconds
    pr_pc,                \* the position of each invocation
    pr_req,               \* the requestId of each invocation
    pr_tracker,           \* None or the tracker object each invocation holds
    pr_heap,              \* the state of every tracker object
    pr_log,               \* the timing calls each invocation made, with their times
    pr_ts,                \* None or the second of the timestamp of each workflow
    pr_urls,              \* the URLs the uploads returned to each invocation
    pr_store,             \* the blobs of the container
    pr_response           \* None or the response of each invocation

\* sanitize_error_message on drawn messages
VARIABLES
    sn_in,                \* None or the message drawn, with the fragment in it
    sn_out                \* None or what sanitize_error_message returned

asm_vars ==
    <<asm_in, asm_out, asm_err>>

stack_vars ==
    <<stack_in, stack_out, stack_single, stack_tiff>>

raster_vars ==
    <<rs_pc, rs_pdf, rs_images, rs_open, rs_calls, rs_result, rs_decoded, rs_valid>>

name_vars ==
    <<nm_in, nm_blob, nm_folder>>

ledger_vars ==
    <<ld_in, ld_page, ld_renders>>

pair_vars ==
    <<pr_now, pr_pc, pr_req, pr_tracker, pr_heap, pr_log, pr_ts, pr_urls, pr_store,
      pr_response>>

sanitize_vars ==
    <<sn_in, sn_out>>

ext_vars ==
    <<ledger_vars, pair_vars, sanitize_vars>>

pure_vars ==
    <<asm_vars, stack_vars, raster_vars, name_vars, ext_vars>>

handler_vars ==
    <<env, clock, pc, request_data, request_id, complete_data, timestamp, folder,
      invoice_pdf, gl_coding_pdf, concatenated_pdf, consolidated_pdf, tiff_data,
      consolidated_pdf_url, tiff_image_url, exc, status_log, calls, blobs,
      local_files, warnings, response>>

\* ------------------------------------------------------------------------
\* function_app.py : responses
\* ------------------------------------------------------------------------
\* create_error_response putting the details into the body as they come
create_error_response_RawDetails(rd, error_message, details, status_code) ==
    [status_code    |-> status_code,
     success        |-> FALSE,
     error          |-> Some(sanitize_error_message(error_message)),
     requestId      |-> IF rd # None THEN rd[1].requestId ELSE UNKNOWN_ID,
     details        |-> IF status_code = 400 THEN Some(details) ELSE None,
     generatedFiles |-> None]

create_error_response(rd, error_message, details, status_code) ==
    [status_code    |-> status_code,
     success        |-> FALSE,
     error          |-> Some(sanitize_error_message(error_message)),
     requestId      |-> IF rd # None THEN rd[1].requestId ELSE UNKNOWN_ID,
     details        |-> IF status_code = 400
                        THEN Some(sanitize_error_message(details))
                        ELSE None,
     generatedFiles |-> None]

create_success_response(result) ==
    [status_code    |-> 200,
     success        |-> TRUE,
     error          |-> None,
     requestId      |-> result.requestId,
     details        |-> None,
     generatedFiles |-> Some(result.generatedFiles)]

\* one call of TCRSApiClient.update_generation_status as the API sees it
StatusUpdate(id, status, file_urls, error_message, raised) ==
    [requestId     |-> id,
     status        |-> status,
     file_urls     |-> file_urls,
     error_message |-> error_message,
     raised        |-> raised]

\* a stage of the invocation that ran: its name, whether it returned, and the
\* text of the exception it raised otherwise
Call(stage, ok, error) ==
    [stage |-> stage, ok |-> ok, error |-> error]

\* nothing of an invocation exists yet
HandlerFresh ==
    /\ request_data = None
    /\ request_id = UNKNOWN_ID
    /\ complete_data = None
    /\ timestamp = None
    /\ folder = None
    /\ invoice_pdf = None
    /\ gl_coding_pdf = None
    /\ concatenated_pdf = None
    /\ consolidated_pdf = None
    /\ tiff_data = None
    /\ consolidated_pdf_url = None
    /\ tiff_image_url = None
    /\ exc = None
    /\ status_log = <<>>
    /\ calls = <<>>
    /\ blobs = {}
    /\ local_files = {}
    /\ warnings = <<>>
    /\ response = None

\* a request arrives at a deployment with some settings, at some second
HandlerInit ==
    /\ env \in [tcrs_ok : BOOLEAN, blob_ok : BOOLEAN, save_local : BOOLEAN]
    /\ clock \in 0..MaxClock
    /\ pc = "input_validation"
    /\ HandlerFresh

\* no request: the state of the handler while a pure function is exercised
HandlerQuiet ==
    /\ env = [tcrs_ok |-> TRUE, blob_ok |-> TRUE, save_local |-> FALSE]
    /\ clock = 0
    /\ pc = "idle"
    /\ HandlerFresh

\* an exception with text e leaves the try block of process_documents
RaiseTo(e) ==
    /\ pc' = "except"
    /\ exc' = Some(e)

\* the stage raises e: no handler between the stage and the outer except block
\* changes the exception (lines 209-211 and pdf_processor.py 387-389 re-raise)
StageRaise(stage, e) ==
    /\ RaiseTo(e)
    /\ calls' = Append(calls, Call(stage, FALSE, Some(e)))

\* lines 42-62: parse and validate the body
InputValidation ==
    /\ pc = "input_validation"
    /\ UNCHANGED pure_vars
    /\ \/ /\ response' = create_error_response(None, MSG_PARSE_FAILED, MSG_EMPTY_BODY, 400)
          /\ pc' = "done"
          /\ UNCHANGED <<request_data, request_id>>
       \/ /\ \E t \in ValidationTexts :
                response' = create_error_response(None, MSG_INVALID_FORMAT, t, 400)
          /\ pc' = "done"
          /\ UNCHANGED <<request_data, request_id>>
       \/ \E id \in RequestIds, w \in RequestWidths, retry \in BOOLEAN :
             /\ request_data' = Some([requestId |-> id, isRetry |-> retry,
                                      signature_width |-> w])
             /\ request_id' = id
             /\ pc' = "init_clients"
             /\ UNCHANGED response
    /\ UNCHANGED <<env, clock, complete_data, timestamp, folder, invoice_pdf,
                   gl_coding_pdf, concatenated_pdf, consolidated_pdf, tiff_data,
                   consolidated_pdf_url, tiff_image_url, exc, status_log, calls,
                   blobs, local_files, warnings>>

\* lines 64-68: the clients read their settings and raise when one is missing
InitClients ==
    /\ pc = "init_clients"
    /\ UNCHANGED pure_vars
    /\ IF ~env.tcrs_ok THEN RaiseTo(MSG_TCRS_ENV)
       ELSE IF ~env.blob_ok THEN RaiseTo(MSG_BLOB_ENV)
       ELSE pc' = "status_update_processing" /\ UNCHANGED exc
    /\ UNCHANGED <<env, clock, request_data, request_id, complete_data, timestamp,
                   folder, invoice_pdf, gl_coding_pdf, concatenated_pdf,
                   consolidated_pdf, tiff_data, consolidated_pdf_url,
                   tiff_image_url, status_log, calls, blobs, local_files,
                   warnings, response>>

\* lines 70-76: the 'processing' update; its failure is logged as a warning
StatusUpdateProcessing ==
    /\ pc = "status_update_processing"
    /\ UNCHANGED pure_vars
    /\ \E raised \in BOOLEAN :
          /\ status_log' = Append(status_log,
                 StatusUpdate(request_id, "processing", None, None, raised))
          /\ warnings' = IF raised THEN Append(warnings, "status_processing")
                         ELSE warnings
    /\ pc' = "fetch_request_data"
    /\ UNCHANGED <<env, clock, request_data, request_id, complete_data, timestamp,
                   folder, invoice_pdf, gl_coding_pdf, concatenated_pdf,
                   consolidated_pdf, tiff_data, consolidated_pdf_url,
                   tiff_image_url, exc, calls, blobs, local_files, response>>

\* lines 78-82: fetch the complete data
FetchRequestData ==
    /\ pc = "fetch_request_data"
    /\ UNCHANGED pure_vars
    /\ \/ \E e \in LibTexts :
             /\ StageRaise("fetch_request_data", MSG_FETCH \o e)
             /\ UNCHANGED complete_data
       \/ \E url \in InvoiceUrls :
             /\ complete_data' = Some([requestId |-> request_id, invoicePdfUrl |-> url])
             /\ calls' = Append(calls, Call("fetch_request_data", TRUE, None))
             /\ pc' = "workflow"
             /\ UNCHANGED exc
    /\ UNCHANGED <<env, clock, request_data, request_id, timestamp, folder,
                   invoice_pdf, gl_coding_pdf, concatenated_pdf, consolidated_pdf,
                   tiff_data, consolidated_pdf_url, tiff_image_url, status_log,
                   blobs, local_files, warnings, response>>

\* lines 131-136: timestamp and folder of this run
WorkflowBegin ==
    /\ pc = "workflow"
    /\ UNCHANGED pure_vars
    /\ timestamp' = Some(FormatTimestamp(clock))
    /\ folder' = Some(extract_folder_from_url(complete_data[1].invoicePdfUrl))
    /\ pc' = "pdf_download"
    /\ UNCHANGED <<env, clock, request_data, request_id, complete_data,
                   invoice_pdf, gl_coding_pdf, concatenated_pdf, consolidated_pdf,
                   tiff_data, consolidated_pdf_url, tiff_image_url, exc,
                   status_log, calls, blobs, local_files, warnings, response>>

\* ------------------------------------------------------------------------
\* pdf_processor.py : PDFProcessor.process_documents, one action per step
\* ------------------------------------------------------------------------
\* the locals of process_documents end with the call
PdfLocalsGone ==
    /\ invoice_pdf' = None
    /\ gl_coding_pdf' = None
    /\ concatenated_pdf' = None

\* lines 360-370: step 1, read the local file or download the blob
PdfDownload ==
    /\ pc = "pdf_download"
    /\ UNCHANGED pure_vars
    /\ \/ \E e \in LibTexts :
             /\ StageRaise("download",
                    IF StartsWith(complete_data[1].invoicePdfUrl, LIT_FILE_SCHEME)
                    THEN e
                    ELSE MSG_DOWNLOAD \o e)
             /\ UNCHANGED invoice_pdf
       \/ \E n \in 1..MaxInvoicePages :
             /\ invoice_pdf' = Some(Pdf("invoice", n, Letter))
             /\ calls' = Append(calls, Call("download", TRUE, None))
             /\ pc' = "pdf_gl_coding"
             /\ UNCHANGED exc
    /\ UNCHANGED <<env, clock, request_data, request_id, complete_data, timestamp,
                   folder, gl_coding_pdf, concatenated_pdf, consolidated_pdf,
                   tiff_data, consolidated_pdf_url, tiff_image_url, status_log,
                   blobs, local_files, warnings, response>>

\* PdfGenerateGlCoding with the failure of step 2 logged and swallowed: the
\* pipeline goes on to the merge with an empty ledger
PdfGenerateGlCoding_Swallowed ==
    /\ pc = "pdf_gl_coding"
    /\ UNCHANGED pure_vars
    /\ \/ \E e \in LibTexts :
             /\ gl_coding_pdf' = Some(<<>>)
             /\ calls' = Append(calls, Call("gl_coding", FALSE, Some(MSG_GL_PAGE \o e)))
       \/ \E m \in 1..MaxLedgerPages :
             /\ gl_coding_pdf' = Some(Pdf("ledger", m, Letter))
             /\ calls' = Append(calls, Call("gl_coding", TRUE, None))
    /\ pc' = "pdf_merge"
    /\ UNCHANGED <<exc, invoice_pdf, concatenated_pdf>>
    /\ UNCHANGED <<env, clock, request_data, request_id, complete_data, timestamp,
                   folder, consolidated_pdf, tiff_data, consolidated_pdf_url,
                   tiff_image_url, status_log, blobs, local_files, warnings,
                   response>>

\* lines 372-374: step 2, render the ledger page(s)
PdfGenerateGlCoding ==
    /\ pc = "pdf_gl_coding"
    /\ UNCHANGED pure_vars
    /\ \/ \E e \in LibTexts :
             /\ StageRaise("gl_coding", MSG_GL_PAGE \o e)
             /\ PdfLocalsGone
       \/ \E m \in 1..MaxLedgerPages :
             /\ gl_coding_pdf' = Some(Pdf("ledger", m, Letter))
             /\ calls' = Append(calls, Call("gl_coding", TRUE, None))
             /\ pc' = "pdf_merge"
             /\ UNCHANGED <<exc, invoice_pdf, concatenated_pdf>>
    /\ UNCHANGED <<env, clock, request_data, request_id, complete_data, timestamp,
                   folder, consolidated_pdf, tiff_data, consolidated_pdf_url,
                   tiff_image_url, status_log, blobs, local_files, warnings,
                   response>>

\* lines 376-378: step 3, concatenate
PdfMerge ==
    /\ pc = "pdf_merge"
    /\ UNCHANGED pure_vars
    /\ \/ \E e \in LibTexts :
             /\ StageRaise("merge", MSG_MERGE \o e)
             /\ PdfLocalsGone
       \/ /\ concatenated_pdf' = Some(merge_pdfs(invoice_pdf[1], gl_coding_pdf[1]))
          /\ calls' = Append(calls, Call("merge", TRUE, None))
          /\ pc' = "pdf_stamp"
          /\ UNCHANGED <<exc, invoice_pdf, gl_coding_pdf>>
    /\ UNCHANGED <<env, clock, request_data, request_id, complete_data, timestamp,
                   folder, consolidated_pdf, tiff_data, consolidated_pdf_url,
                   tiff_image_url, status_log, blobs, local_files, warnings,
                   response>>

\* lines 380-385: step 4, stamp page 1 (default side) and return the document
PdfStamp ==
    /\ pc = "pdf_stamp"
    /\ UNCHANGED pure_vars
    /\ \/ \E e \in LibTexts :
             /\ StageRaise("stamp", MSG_STAMP \o e)
             /\ UNCHANGED consolidated_pdf
       \/ /\ consolidated_pdf' = Some(add_stamp_to_first_page(
                 concatenated_pdf[1], request_data[1].signature_width, "right"))
          /\ calls' = Append(calls, Call("stamp", TRUE, None))
          /\ pc' = "tiff_conversion"
          /\ UNCHANGED exc
    /\ PdfLocalsGone
    /\ UNCHANGED <<env, clock, request_data, request_id, complete_data, timestamp,
                   folder, tiff_data, consolidated_pdf_url, tiff_image_url,
                   status_log, blobs, local_files, warnings, response>>

\* ------------------------------------------------------------------------
\* function_app.py : process_documents_workflow after the assembly
\* ------------------------------------------------------------------------
\* TiffConversion with a rasterisation failure logged and swallowed: the
\* workflow goes on to the uploads without an archive
TiffConversion_Swallowed ==
    /\ pc = "tiff_conversion"
    /\ UNCHANGED pure_vars
    /\ \/ \E e \in LibTexts :
             /\ calls' = Append(calls, Call("convert_pdf_to_tiff", FALSE,
                                            Some(MSG_PDF_TO_IMAGES \o e)))
             /\ UNCHANGED <<tiff_data, warnings>>
       \/ \E decoded \in Decodes :
             LET valid == validate_tiff_quality(decoded) IN
             /\ tiff_data' = Some(convert_pdf_to_tiff(consolidated_pdf[1]).value)
             /\ calls' = calls \o <<Call("convert_pdf_to_tiff", TRUE, None),
                                    Call("validate_tiff_quality", valid, None)>>
             /\ warnings' = IF valid THEN warnings
                            ELSE Append(warnings, "tiff_quality")
    /\ pc' = IF env.save_local THEN "save_local" ELSE "upload_pdf"
    /\ UNCHANGED <<env, clock, request_data, request_id, complete_data, timestamp,
                   folder, invoice_pdf, gl_coding_pdf, concatenated_pdf,
                   consolidated_pdf, consolidated_pdf_url, tiff_image_url, exc,
                   status_log, blobs, local_files, response>>

\* TiffConversion with a false validation treated as an error
TiffConversion_ValidationFatal ==
    /\ pc = "tiff_conversion"
    /\ UNCHANGED pure_vars
    /\ \E decoded \in Decodes :
          LET valid == validate_tiff_quality(decoded) IN
          /\ tiff_data' = Some(convert_pdf_to_tiff(consolidated_pdf[1]).value)
          /\ calls' = calls \o <<Call("convert_pdf_to_tiff", TRUE, None),
                                 Call("validate_tiff_quality", valid, None)>>
          /\ warnings' = IF valid THEN warnings
                         ELSE Append(warnings, "tiff_quality")
          /\ IF valid
             THEN /\ pc' = IF env.save_local THEN "save_local" ELSE "upload_pdf"
                  /\ UNCHANGED exc
             ELSE RaiseTo(MSG_TO_TIFF)
    /\ UNCHANGED <<env, clock, request_data, request_id, complete_data, timestamp,
                   folder, invoice_pdf, gl_coding_pdf, concatenated_pdf,
                   consolidated_pdf, consolidated_pdf_url, tiff_image_url,
                   status_log, blobs, local_files, response>>

\* lines 144-153: rasterise, then validate; a false validation is a warning
TiffConversion ==
    /\ pc = "tiff_conversion"
    /\ UNCHANGED pure_vars
    /\ \/ \E e \in LibTexts, wrap \in {MSG_PDF_TO_IMAGES, MSG_TO_TIFF \o MSG_SINGLE_TIFF} :
             /\ StageRaise("convert_pdf_to_tiff", wrap \o e)
             /\ UNCHANGED <<tiff_data, warnings>>
       \/ LET r == convert_pdf_to_tiff(consolidated_pdf[1]) IN
          IF ~r.ok
          THEN /\ StageRaise("convert_pdf_to_tiff", r.error)
               /\ UNCHANGED <<tiff_data, warnings>>
          ELSE \E decoded \in Decodes :
               LET valid == validate_tiff_quality(decoded) IN
               /\ tiff_data' = Some(r.value)
               /\ calls' = calls \o <<Call("convert_pdf_to_tiff", TRUE, None),
                                      Call("validate_tiff_quality", valid, None)>>
               /\ warnings' = IF valid THEN warnings
                              ELSE Append(warnings, "tiff_quality")
               /\ pc' = IF env.save_local THEN "save_local" ELSE "upload_pdf"
               /\ UNCHANGED exc
    /\ UNCHANGED <<env, clock, request_data, request_id, complete_data, timestamp,
                   folder, invoice_pdf, gl_coding_pdf, concatenated_pdf,
                   consolidated_pdf, consolidated_pdf_url, tiff_image_url,
                   status_log, blobs, local_files, response>>

\* lines 155-170: local copies when SAVE_LOCAL_COPIES is set
SaveLocalCopies ==
    /\ pc = "save_local"
    /\ UNCHANGED pure_vars
    /\ \/ /\ StageRaise("save_local", TXT_DISK)
          /\ \E written \in {{}, {"pdf"}} : local_files' = written
       \/ /\ local_files' = {"pdf", "tiff"}
          /\ calls' = Append(calls, Call("save_local", TRUE, None))
          /\ pc' = "upload_pdf"
          /\ UNCHANGED exc
    /\ UNCHANGED <<env, clock, request_data, request_id, complete_data, timestamp,
                   folder, invoice_pdf, gl_coding_pdf, concatenated_pdf,
                   consolidated_pdf, tiff_data, consolidated_pdf_url,
                   tiff_image_url, status_log, blobs, warnings, response>>

\* upload_blob(..., overwrite=True)
PutBlob(store, name, content) ==
    {b \in store : b.name # name} \cup {[name |-> name, content |-> content]}

\* lines 31-57: what upload_document raises for the library's error text e
UploadErrors ==
    {MSG_UPLOAD \o e : e \in LibTexts} \cup LibTexts

\* lines 176-178: first upload, the consolidated PDF
UploadConsolidatedPdf ==
    /\ pc = "upload_pdf"
    /\ UNCHANGED pure_vars
    /\ \/ \E e \in UploadErrors :
             /\ StageRaise("upload_consolidated_pdf", e)
             /\ UNCHANGED <<blobs, consolidated_pdf_url>>
       \/ \E token_ok \in BOOLEAN :
             LET blob_name == generate_blob_name(request_id, "consolidated_pdf",
                                                 timestamp[1], folder[1]).value IN
             /\ blobs' = PutBlob(blobs, blob_name, consolidated_pdf[1])
             /\ consolidated_pdf_url' = Some(generate_sas_url(blob_name, token_ok))
             /\ calls' = Append(calls, Call("upload_consolidated_pdf", TRUE, None))
             /\ pc' = "upload_tiff"
             /\ UNCHANGED exc
    /\ UNCHANGED <<env, clock, request_data, request_id, complete_data, timestamp,
                   folder, invoice_pdf, gl_coding_pdf, concatenated_pdf,
                   consolidated_pdf, tiff_data, tiff_image_url, status_log,
                   local_files, warnings, response>>

\* lines 180-182: second upload, the raster archive
UploadTiffImage ==
    /\ pc = "upload_tiff"
    /\ UNCHANGED pure_vars
    /\ \/ \E e \in UploadErrors :
             /\ StageRaise("upload_tiff_image", e)
             /\ UNCHANGED <<blobs, tiff_image_url>>
       \/ \E token_ok \in BOOLEAN :
             LET blob_name == generate_blob_name(request_id, "tiff_image",
                                                 timestamp[1], folder[1]).value IN
             /\ blobs' = PutBlob(blobs, blob_name, tiff_data[1])
             /\ tiff_image_url' = Some(generate_sas_url(blob_name, token_ok))
             /\ calls' = Append(calls, Call("upload_tiff_image", TRUE, None))
             /\ pc' = "status_update_completed"
             /\ UNCHANGED exc
    /\ UNCHANGED <<env, clock, request_data, request_id, complete_data, timestamp,
                   folder, invoice_pdf, gl_coding_pdf, concatenated_pdf,
                   consolidated_pdf, tiff_data, consolidated_pdf_url, status_log,
                   local_files, warnings, response>>

\* WorkflowResult with the two URLs under each other's key
WorkflowResult_Swapped ==
    [success        |-> TRUE,
     requestId      |-> request_id,
     generatedFiles |-> [consolidatedPdf |-> tiff_image_url[1],
                         tiffImage       |-> consolidated_pdf_url[1]],
     isRetry        |-> request_data[1].isRetry,
     folder         |-> folder[1],
     status         |-> "completed"]

\* lines 188-207: the result the workflow returns
WorkflowResult ==
    [success        |-> TRUE,
     requestId      |-> request_id,
     generatedFiles |-> [consolidatedPdf |-> consolidated_pdf_url[1],
                         tiffImage       |-> tiff_image_url[1]],
     isRetry        |-> request_data[1].isRetry,
     folder         |-> folder[1],
     status         |-> "completed"]

\* lines 90-109: the 'completed' update, then the 200 response; the update is
\* awaited inside the outer try, so its exception goes to the except block
StatusUpdateCompleted ==
    /\ pc = "status_update_completed"
    /\ UNCHANGED pure_vars
    /\ \E raised \in BOOLEAN :
          /\ status_log' = Append(status_log,
                 StatusUpdate(request_id, "completed",
                              Some(WorkflowResult.generatedFiles), None, raised))
          /\ IF raised
             THEN RaiseTo(MSG_STATUS \o TXT_HTTP_500) /\ UNCHANGED response
             ELSE /\ response' = create_success_response(WorkflowResult)
                  /\ pc' = "done"
                  /\ UNCHANGED exc
    /\ UNCHANGED <<env, clock, request_data, request_id, complete_data, timestamp,
                   folder, invoice_pdf, gl_coding_pdf, concatenated_pdf,
                   consolidated_pdf, tiff_data, consolidated_pdf_url,
                   tiff_image_url, calls, blobs, local_files, warnings>>

\* HandleException answering 500 without a 'failed' update
HandleException_NoStatus ==
    /\ pc = "except"
    /\ UNCHANGED pure_vars
    /\ response' = create_error_response(request_data, MSG_INTERNAL, exc[1], 500)
    /\ pc' = "done"
    /\ UNCHANGED <<env, clock, request_data, request_id, complete_data, timestamp,
                   folder, invoice_pdf, gl_coding_pdf, concatenated_pdf,
                   consolidated_pdf, tiff_data, consolidated_pdf_url,
                   tiff_image_url, exc, status_log, calls, blobs, local_files,
                   warnings>>

\* the except block handing the text of the exception to the status update
\* as it was raised
HandleException_RawStatus ==
    /\ pc = "except"
    /\ UNCHANGED pure_vars
    /\ IF request_data # None /\ env.tcrs_ok
       THEN \E raised \in BOOLEAN :
               status_log' = Append(status_log,
                   StatusUpdate(request_id, "failed", None, Some(exc[1]), raised))
       ELSE UNCHANGED status_log
    /\ response' = create_error_response(request_data, MSG_INTERNAL, exc[1], 500)
    /\ pc' = "done"
    /\ UNCHANGED <<env, clock, request_data, request_id, complete_data, timestamp,
                   folder, invoice_pdf, gl_coding_pdf, concatenated_pdf,
                   consolidated_pdf, tiff_data, consolidated_pdf_url,
                   tiff_image_url, exc, calls, blobs, local_files, warnings>>

\* lines 111-125: the except block: a 'failed' update when the request was
\* validated (a new client is built for it, which raises again when the
\* settings are missing), then the 500 response
HandleException ==
    /\ pc = "except"
    /\ UNCHANGED pure_vars
    /\ IF request_data # None /\ env.tcrs_ok
       THEN \E raised \in BOOLEAN :
               status_log' = Append(status_log,
                   StatusUpdate(request_id, "failed", None,
                                Some(sanitize_error_message(exc[1])), raised))
       ELSE UNCHANGED status_log
    /\ response' = create_error_response(request_data, MSG_INTERNAL, exc[1], 500)
    /\ pc' = "done"
    /\ UNCHANGED <<env, clock, request_data, request_id, complete_data, timestamp,
                   folder, invoice_pdf, gl_coding_pdf, concatenated_pdf,
                   consolidated_pdf, tiff_data, consolidated_pdf_url,
                   tiff_image_url, exc, calls, blobs, local_files, warnings>>

HandlerNext ==
    \/ InputValidation
    \/ InitClients
    \/ StatusUpdateProcessing
    \/ FetchRequestData
    \/ WorkflowBegin
    \/ PdfDownload
    \/ PdfGenerateGlCoding
    \/ PdfMerge
    \/ PdfStamp
    \/ TiffConversion
    \/ SaveLocalCopies
    \/ UploadConsolidatedPdf
    \/ UploadTiffImage
    \/ StatusUpdateCompleted
    \/ HandleException


vars ==
    <<handler_vars, pure_vars>>

AsmIdle ==
    /\ asm_in = None
    /\ asm_out = None
    /\ asm_err = None

StackIdle ==
    /\ stack_in = None
    /\ stack_out = None
    /\ stack_single = None
    /\ stack_tiff = None

RasterIdle ==
    /\ rs_pc = "idle"
    /\ rs_pdf = <<>>
    /\ rs_images = <<>>
    /\ rs_open = {}
    /\ rs_calls = <<>>
    /\ rs_result = None
    /\ rs_decoded = None
    /\ rs_valid = None

NameIdle ==
    /\ nm_in = None
    /\ nm_blob = None
    /\ nm_folder = None

LedgerIdle ==
    /\ ld_in = None
    /\ ld_page = None
    /\ ld_renders = 0

PairIdle ==
    /\ pr_now = 0
    /\ pr_pc = <<>>
    /\ pr_req = <<>>
    /\ pr_tracker = <<>>
    /\ pr_heap = <<>>
    /\ pr_log = <<>>
    /\ pr_ts = <<>>
    /\ pr_urls = <<>>
    /\ pr_store = {}
    /\ pr_response = <<>>

SanitizeIdle ==
    /\ sn_in = None
    /\ sn_out = None

ExtIdle ==
    /\ LedgerIdle
    /\ PairIdle
    /\ SanitizeIdle

PureIdle ==
    /\ AsmIdle
    /\ StackIdle
    /\ RasterIdle
    /\ NameIdle
    /\ ExtIdle

Init ==
    HandlerInit /\ PureIdle

Next ==
    HandlerNext

Spec ==
    Init /\ [][Next]_vars


\* ------------------------------------------------------------------------
\* The assembly (merge_pdfs, then add_stamp_to_first_page) on drawn documents
\* ------------------------------------------------------------------------
AssemblyInit ==
    /\ HandlerQuiet
    /\ ExtIdle
    /\ \E n \in 0..MaxInvoicePages, m \in 0..MaxLedgerPages,
          w \in 1..MaxTextWidth, side \in Positions :
          asm_in = Some([invoice_pdf   |-> Pdf("invoice", n, Letter),
                         signature_pdf |-> Pdf("ledger", m, Letter),
                         text_width    |-> w,
                         position      |-> side])
    /\ asm_out = None
    /\ asm_err = None
    /\ StackIdle
    /\ RasterIdle
    /\ NameIdle

\* merge_pdfs, then add_stamp_to_first_page: each returns its document or
\* raises its own message around the text of the library (lines 350-352,
\* 321-323), and nothing is returned by a call that raised
Assemble ==
    /\ asm_in # None
    /\ asm_out = None
    /\ asm_err = None
    /\ \/ /\ asm_out' = Some(add_stamp_to_first_page(
                  merge_pdfs(asm_in[1].invoice_pdf, asm_in[1].signature_pdf),
                  asm_in[1].text_width, asm_in[1].position))
          /\ UNCHANGED asm_err
       \/ /\ \E e \in LibTexts, wrap \in {MSG_MERGE, MSG_STAMP} :
                asm_err' = Some(wrap \o e)
          /\ UNCHANGED asm_out
    /\ UNCHANGED <<handler_vars, ext_vars, asm_in, stack_vars, raster_vars, name_vars>>

SpecAssembly ==
    AssemblyInit /\ [][Assemble]_vars

\* ------------------------------------------------------------------------
\* The stacking and encoding operations on drawn page images
\* ------------------------------------------------------------------------
Images ==
    [width : ImageWidths, height : ImageHeights]

StackInit ==
    /\ HandlerQuiet
    /\ ExtIdle
    /\ AsmIdle
    /\ \E n \in 0..MaxImages : \E images \in [1..n -> Images] :
          stack_in = Some(images)
    /\ stack_out = None
    /\ stack_single = None
    /\ stack_tiff = None
    /\ RasterIdle
    /\ NameIdle

Combine ==
    /\ stack_in # None
    /\ stack_out = None
    /\ stack_out' = Some(combine_images_vertically(stack_in[1]))
    /\ UNCHANGED <<handler_vars, ext_vars, asm_vars, stack_in, stack_single, stack_tiff,
                   raster_vars, name_vars>>

EncodeSinglePage ==
    /\ stack_in # None
    /\ stack_single = None
    /\ stack_single' = Some(images_to_singlepage_tiff(stack_in[1]))
    /\ UNCHANGED <<handler_vars, ext_vars, asm_vars, stack_in, stack_out, stack_tiff,
                   raster_vars, name_vars>>

EncodeTiff ==
    /\ stack_in # None
    /\ stack_tiff = None
    /\ stack_tiff' = Some(images_to_tiff(stack_in[1]))
    /\ UNCHANGED <<handler_vars, ext_vars, asm_vars, stack_in, stack_out, stack_single,
                   raster_vars, name_vars>>

StackNext ==
    \/ Combine
    \/ EncodeSinglePage
    \/ EncodeTiff

SpecStack ==
    StackInit /\ [][StackNext]_vars

\* ------------------------------------------------------------------------
\* tiff_converter.py : convert_pdf_to_tiff and validate_tiff_quality, one
\* action per step, with the handles the steps open and close
\* ------------------------------------------------------------------------
RasterInit ==
    /\ HandlerQuiet
    /\ ExtIdle
    /\ AsmIdle
    /\ StackIdle
    /\ NameIdle
    /\ rs_pc = "convert"
    /\ \E n \in 0..MaxRenderPages : \E boxes \in [1..n -> PageBoxes] :
          rs_pdf = [i \in 1..n |-> Page("consolidated", i, boxes[i])]
    /\ rs_images = <<>>
    /\ rs_open = {}
    /\ rs_calls = <<>>
    /\ rs_result = None
    /\ \E d \in Decodes : rs_decoded = Some(d)
    /\ rs_valid = None

\* the call raises: lines 170-172 re-raise what the step raised
RasterRaise(text) ==
    /\ rs_result' = Some(Raise(text))
    /\ rs_pc' = "done"

\* lines 151-155, 103-106: enter pdf_to_images and open the document
RasterOpenPdf ==
    /\ rs_pc = "convert"
    /\ rs_calls' = rs_calls \o <<"convert_pdf_to_tiff", "pdf_to_images">>
    /\ \/ /\ rs_open' = rs_open \cup {<<"pdf_document">>}
          /\ rs_pc' = "render"
          /\ UNCHANGED rs_result
       \/ /\ \E t \in LibTexts : RasterRaise(MSG_PDF_TO_IMAGES \o t)
          /\ UNCHANGED rs_open
    /\ UNCHANGED <<handler_vars, ext_vars, asm_vars, stack_vars, name_vars,
                   rs_pdf, rs_images, rs_decoded, rs_valid>>

\* lines 110-138: one turn of the page loop; an error of the renderer or of
\* the image library leaves through the except clause at lines 145-147
RasterRenderPage ==
    /\ rs_pc = "render"
    /\ Len(rs_images) < Len(rs_pdf)
    /\ LET page_num == Len(rs_images) + 1 IN
       \/ /\ rs_images' = Append(rs_images, RenderPage(rs_pdf[page_num]))
          /\ rs_open' = rs_open \cup {<<"image", page_num>>}
          /\ UNCHANGED <<rs_pc, rs_result>>
       \/ /\ \E t \in LibTexts : RasterRaise(MSG_PDF_TO_IMAGES \o t)
          /\ UNCHANGED <<rs_images, rs_open>>
    /\ UNCHANGED <<handler_vars, ext_vars, asm_vars, stack_vars, name_vars,
                   rs_pdf, rs_calls, rs_decoded, rs_valid>>

\* lines 140-142: after the loop the document is closed and the list returned
RasterClosePdf ==
    /\ rs_pc = "render"
    /\ Len(rs_images) = Len(rs_pdf)
    /\ rs_open' = rs_open \ {<<"pdf_document">>}
    /\ rs_pc' = "check"
    /\ UNCHANGED <<handler_vars, ext_vars, asm_vars, stack_vars, name_vars,
                   rs_pdf, rs_images, rs_calls, rs_result, rs_decoded, rs_valid>>

\* RasterCheckPages without the test for an empty list
RasterCheckPages_Unchecked ==
    /\ rs_pc = "check"
    /\ rs_pc' = "encode"
    /\ UNCHANGED <<handler_vars, ext_vars, asm_vars, stack_vars, name_vars,
                   rs_pdf, rs_images, rs_open, rs_calls, rs_result, rs_decoded,
                   rs_valid>>

\* lines 157-158: no images, no archive
RasterCheckPages ==
    /\ rs_pc = "check"
    /\ IF rs_images = <<>>
       THEN RasterRaise(MSG_NO_PAGES)
       ELSE rs_pc' = "encode" /\ UNCHANGED rs_result
    /\ UNCHANGED <<handler_vars, ext_vars, asm_vars, stack_vars, name_vars,
                   rs_pdf, rs_images, rs_open, rs_calls, rs_decoded, rs_valid>>

\* line 161: images_to_tiff; what it raises itself, and what the image
\* library raises while saving, wrapped at lines 61-63 and 74-76
RasterEncode ==
    /\ rs_pc = "encode"
    /\ rs_calls' = Append(rs_calls, "images_to_tiff")
    /\ LET r == images_to_tiff(rs_images) IN
       \/ /\ r.ok
          /\ rs_pc' = "close_images"
          /\ UNCHANGED rs_result
       \/ /\ ~r.ok
          /\ RasterRaise(r.error)
       \/ /\ r.ok
          /\ \E t \in LibTexts : RasterRaise(MSG_TO_TIFF \o MSG_SINGLE_TIFF \o t)
    /\ UNCHANGED <<handler_vars, ext_vars, asm_vars, stack_vars, name_vars,
                   rs_pdf, rs_images, rs_open, rs_decoded, rs_valid>>

\* lines 163-168: every image of the list is closed, the archive returned
RasterCloseImages ==
    /\ rs_pc = "close_images"
    /\ rs_open' = rs_open \ {<<"image", i>> : i \in DOMAIN rs_images}
    /\ rs_result' = Some(images_to_tiff(rs_images))
    /\ rs_pc' = "validate"
    /\ UNCHANGED <<handler_vars, ext_vars, asm_vars, stack_vars, name_vars,
                   rs_pdf, rs_images, rs_calls, rs_decoded, rs_valid>>

\* lines 176-177, 212-214: Image.open on the bytes; when it raises, the
\* except clause returns False
RasterValidateOpen ==
    /\ rs_pc = "validate"
    /\ rs_calls' = Append(rs_calls, "validate_tiff_quality")
    /\ IF rs_decoded[1].opens
       THEN /\ rs_open' = rs_open \cup {<<"tiff_image">>}
            /\ rs_pc' = "validate_checks"
            /\ UNCHANGED rs_valid
       ELSE /\ rs_valid' = Some(validate_tiff_quality(rs_decoded[1]))
            /\ rs_pc' = "done"
            /\ UNCHANGED rs_open
    /\ UNCHANGED <<handler_vars, ext_vars, asm_vars, stack_vars, name_vars,
                   rs_pdf, rs_images, rs_result, rs_decoded>>

\* lines 185-210: the two checks return False at once; only the passing
\* path reaches tiff_image.close()
RasterValidateChecks ==
    /\ rs_pc = "validate_checks"
    /\ rs_valid' = Some(validate_tiff_quality(rs_decoded[1]))
    /\ rs_open' = IF validate_tiff_quality(rs_decoded[1])
                  THEN rs_open \ {<<"tiff_image">>}
                  ELSE rs_open
    /\ rs_pc' = "done"
    /\ UNCHANGED <<handler_vars, ext_vars, asm_vars, stack_vars, name_vars,
                   rs_pdf, rs_images, rs_calls, rs_result, rs_decoded>>

RasterNext ==
    \/ RasterOpenPdf
    \/ RasterRenderPage
    \/ RasterClosePdf
    \/ RasterCheckPages
    \/ RasterEncode
    \/ RasterCloseImages
    \/ RasterValidateOpen
    \/ RasterValidateChecks

SpecRaster ==
    RasterInit /\ [][RasterNext]_vars

\* ------------------------------------------------------------------------
\* blob_client.py : generate_blob_name and extract_folder_from_url on drawn
\* arguments
\* ------------------------------------------------------------------------
NameInit ==
    /\ HandlerQuiet
    /\ ExtIdle
    /\ AsmIdle
    /\ StackIdle
    /\ RasterIdle
    /\ \E id \in NameRequestIds, type \in NameFileTypes, t \in 0..MaxClock,
          dir \in NameFolders, url \in NameUrls :
          nm_in = Some([request_id |-> id,
                        file_type  |-> type,
                        timestamp  |-> FormatTimestamp(t),
                        folder     |-> dir,
                        blob_url   |-> url])
    /\ nm_blob = None
    /\ nm_folder = None

GenerateBlobName ==
    /\ nm_in # None
    /\ nm_blob = None
    /\ nm_blob' = Some(generate_blob_name(nm_in[1].request_id, nm_in[1].file_type,
                                          nm_in[1].timestamp, nm_in[1].folder))
    /\ UNCHANGED <<handler_vars, ext_vars, asm_vars, stack_vars, raster_vars, nm_in, nm_folder>>

ExtractFolder ==
    /\ nm_in # None
    /\ nm_folder = None
    /\ nm_folder' = Some(extract_folder_from_url(nm_in[1].blob_url))
    /\ UNCHANGED <<handler_vars, ext_vars, asm_vars, stack_vars, raster_vars, nm_in, nm_blob>>

NameNext ==
    \/ GenerateBlobName
    \/ ExtractFolder

SpecNames ==
    NameInit /\ [][NameNext]_vars

\* ------------------------------------------------------------------------
\* generate_gl_coding_page on drawn ledger sets
\* ------------------------------------------------------------------------
LedgerInit ==
    /\ HandlerQuiet
    /\ AsmIdle
    /\ StackIdle
    /\ RasterIdle
    /\ NameIdle
    /\ ExtIdle

\* the ledger sets drawn: glCodingData with 1..MaxLines entries
LedgerSets ==
    UNION {[1..n -> {[amount |-> ParseAmount(m)] : m \in LedgerAmounts}] :
               n \in 1..MaxLines}

\* lines 58-226: one call of generate_gl_coding_page on the same processor
GenerateGlCodingPage ==
    /\ ld_renders < MaxRenders
    /\ \E entries \in LedgerSets :
          /\ ld_in' = Some(entries)
          /\ ld_page' = Some(generate_gl_coding_page(entries))
    /\ ld_renders' = ld_renders + 1
    /\ UNCHANGED <<handler_vars, asm_vars, stack_vars, raster_vars, name_vars,
                   pair_vars, sanitize_vars>>

LedgerNext ==
    GenerateGlCodingPage

SpecLedger ==
    LedgerInit /\ [][LedgerNext]_vars

\* ------------------------------------------------------------------------
\* Two invocations of process_documents in one worker
\* ------------------------------------------------------------------------
\* the objects of class PerformanceTracker: the one of the module
\* (performance.py line 71) and the one each invocation constructs
TrackerObjects ==
    {0} \cup Invocations

PairInit ==
    /\ HandlerQuiet
    /\ AsmIdle
    /\ StackIdle
    /\ RasterIdle
    /\ NameIdle
    /\ LedgerIdle
    /\ SanitizeIdle
    /\ pr_now = 0
    /\ pr_pc = [i \in Invocations |-> "start"]
    /\ pr_req \in {r \in [Invocations -> PairRequestIds] : r[1] = REQ_ID_1}
    /\ pr_tracker = [i \in Invocations |-> None]
    /\ pr_heap = [o \in TrackerObjects |-> EmptyTracker]
    /\ pr_log = [i \in Invocations |-> <<>>]
    /\ pr_ts = [i \in Invocations |-> None]
    /\ pr_urls = [i \in Invocations |-> <<>>]
    /\ pr_store = {}
    /\ pr_response = [i \in Invocations |-> None]

PairFrame ==
    UNCHANGED <<handler_vars, asm_vars, stack_vars, raster_vars, name_vars,
                ledger_vars, sanitize_vars>>

\* invocation i makes the timing calls on the tracker it holds, all at the
\* present time
Timed(i, ref, timing_calls) ==
    /\ pr_heap' = [pr_heap EXCEPT ![ref] = ApplyTimings(@, timing_calls, pr_now)]
    /\ pr_log' = [pr_log EXCEPT ![i] = @ \o
                     [k \in DOMAIN timing_calls |->
                         [kind  |-> timing_calls[k].kind,
                          stage |-> timing_calls[k].stage,
                          at    |-> pr_now]]]

\* the exception leaves the blocks of the stages: each finally records its stage
Unwind(i, stages, to) ==
    /\ Timed(i, pr_tracker[i][1], [k \in DOMAIN stages |-> TimingCall("end", stages[k])])
    /\ pr_pc' = [pr_pc EXCEPT ![i] = to]

\* time.time() moves on
PairTick ==
    /\ pr_now < MaxNow
    /\ pr_now' = pr_now + 1
    /\ PairFrame
    /\ UNCHANGED <<pr_pc, pr_req, pr_tracker, pr_heap, pr_log, pr_ts, pr_urls,
                   pr_store, pr_response>>

\* lines 34-72: the tracker, the validation of the body inside its stage, the
\* clients, and the 'processing' update is awaited
PairBegin(i) ==
    /\ pr_pc[i] = "start"
    /\ LET ref == PerformanceTracker(i) IN
       /\ pr_tracker' = [pr_tracker EXCEPT ![i] = Some(ref)]
       /\ \/ /\ Timed(i, ref, <<TimingCall("start", "input_validation"),
                               TimingCall("end", "input_validation"),
                               TimingCall("start", "status_update_processing")>>)
             /\ pr_pc' = [pr_pc EXCEPT ![i] = "in_status_processing"]
             /\ UNCHANGED pr_response
          \/ /\ Timed(i, ref, <<TimingCall("start", "input_validation"),
                               TimingCall("end", "input_validation")>>)
             /\ pr_pc' = [pr_pc EXCEPT ![i] = "done"]
             /\ pr_response' = [pr_response EXCEPT ![i] =
                                   Some([status_code |-> 400, generatedFiles |-> <<>>,
                                         performance |-> None])]
    /\ PairFrame
    /\ UNCHANGED <<pr_now, pr_req, pr_ts, pr_urls, pr_store>>

\* lines 73-80: the 'processing' update returned or raised (a warning either
\* way); the fetch is awaited
PairStatusProcessingReturns(i) ==
    /\ pr_pc[i] = "in_status_processing"
    /\ Timed(i, pr_tracker[i][1], <<TimingCall("end", "status_update_processing"),
                                    TimingCall("start", "fetch_request_data")>>)
    /\ pr_pc' = [pr_pc EXCEPT ![i] = "in_fetch"]
    /\ PairFrame
    /\ UNCHANGED <<pr_now, pr_req, pr_tracker, pr_ts, pr_urls, pr_store, pr_response>>

\* lines 81-87, 131-141: the fetch returned; the workflow takes its timestamp
\* and awaits the assembly
PairFetchReturns(i) ==
    /\ pr_pc[i] = "in_fetch"
    /\ \/ /\ Timed(i, pr_tracker[i][1], <<TimingCall("end", "fetch_request_data"),
                                          TimingCall("start", "document_processing"),
                                          TimingCall("start", "pdf_processing")>>)
          /\ pr_ts' = [pr_ts EXCEPT ![i] = Some(pr_now)]
          /\ pr_pc' = [pr_pc EXCEPT ![i] = "in_pdf"]
       \/ /\ Unwind(i, <<"fetch_request_data">>, "except")
          /\ UNCHANGED pr_ts
    /\ PairFrame
    /\ UNCHANGED <<pr_now, pr_req, pr_tracker, pr_urls, pr_store, pr_response>>

\* lines 139-146: the assembly returned; the conversion starts
PairPdfReturns(i) ==
    /\ pr_pc[i] = "in_pdf"
    /\ \/ /\ Timed(i, pr_tracker[i][1], <<TimingCall("end", "pdf_processing"),
                                          TimingCall("start", "tiff_conversion")>>)
          /\ pr_pc' = [pr_pc EXCEPT ![i] = "in_tiff"]
       \/ Unwind(i, <<"pdf_processing", "document_processing">>, "except")
    /\ PairFrame
    /\ UNCHANGED <<pr_now, pr_req, pr_tracker, pr_ts, pr_urls, pr_store, pr_response>>

\* lines 145-178: the conversion ended; the first upload is awaited
PairTiffReturns(i) ==
    /\ pr_pc[i] = "in_tiff"
    /\ \/ /\ Timed(i, pr_tracker[i][1], <<TimingCall("end", "tiff_conversion"),
                                          TimingCall("start", "blob_storage_upload")>>)
          /\ pr_pc' = [pr_pc EXCEPT ![i] = "in_upload_pdf"]
       \/ Unwind(i, <<"tiff_conversion", "document_processing">>, "except")
    /\ PairFrame
    /\ UNCHANGED <<pr_now, pr_req, pr_tracker, pr_ts, pr_urls, pr_store, pr_response>>

\* blob_client.py lines 31-50, 151-161: upload_blob(overwrite=True) under
\* the generated name, and the URL of the blob
PairUpload(i, file_type) ==
    LET blob_name == generate_blob_name(pr_req[i], file_type,
                                        FormatTimestamp(pr_ts[i][1]),
                                        extract_folder_from_url(URL_BLOB)).value
    IN  /\ pr_store' = PutBlob(pr_store, blob_name, <<i, file_type>>)
        /\ pr_urls' = [pr_urls EXCEPT ![i] = Append(@, generate_sas_url(blob_name, TRUE))]

\* lines 176-180: the first upload returned; the second is awaited
PairUploadPdfReturns(i) ==
    /\ pr_pc[i] = "in_upload_pdf"
    /\ \/ /\ PairUpload(i, "consolidated_pdf")
          /\ pr_pc' = [pr_pc EXCEPT ![i] = "in_upload_tiff"]
          /\ UNCHANGED <<pr_heap, pr_log>>
       \/ /\ Unwind(i, <<"blob_storage_upload", "document_processing">>, "except")
          /\ UNCHANGED <<pr_store, pr_urls>>
    /\ PairFrame
    /\ UNCHANGED <<pr_now, pr_req, pr_tracker, pr_ts, pr_response>>

\* lines 180-207, 88-100: the second upload returned, the workflow returns
\* its result, and the 'completed' update is awaited
PairUploadTiffReturns(i) ==
    /\ pr_pc[i] = "in_upload_tiff"
    /\ \/ /\ PairUpload(i, "tiff_image")
          /\ Timed(i, pr_tracker[i][1], <<TimingCall("end", "blob_storage_upload"),
                                          TimingCall("end", "document_processing"),
                                          TimingCall("start", "status_update_completed")>>)
          /\ pr_pc' = [pr_pc EXCEPT ![i] = "in_status_completed"]
       \/ /\ Unwind(i, <<"blob_storage_upload", "document_processing">>, "except")
          /\ UNCHANGED <<pr_store, pr_urls>>
    /\ PairFrame
    /\ UNCHANGED <<pr_now, pr_req, pr_tracker, pr_ts, pr_response>>

\* lines 98-109: the 'completed' update returned: the response carries the
\* URLs and the data of the tracker
PairStatusCompletedReturns(i) ==
    /\ pr_pc[i] = "in_status_completed"
    /\ \/ /\ Unwind(i, <<"status_update_completed">>, "done")
          /\ pr_response' = [pr_response EXCEPT ![i] =
                Some([status_code    |-> 200,
                      generatedFiles |-> pr_urls[i],
                      performance    |-> Some(get_performance_data(
                                                  pr_heap'[pr_tracker[i][1]]))])]
       \/ /\ Unwind(i, <<"status_update_completed">>, "except")
          /\ UNCHANGED pr_response
    /\ PairFrame
    /\ UNCHANGED <<pr_now, pr_req, pr_tracker, pr_ts, pr_urls, pr_store>>

\* lines 111-125: the except block answers 500
PairHandleException(i) ==
    /\ pr_pc[i] = "except"
    /\ pr_pc' = [pr_pc EXCEPT ![i] = "done"]
    /\ pr_response' = [pr_response EXCEPT ![i] =
                          Some([status_code |-> 500, generatedFiles |-> <<>>,
                                performance |-> None])]
    /\ PairFrame
    /\ UNCHANGED <<pr_now, pr_req, pr_tracker, pr_heap, pr_log, pr_ts, pr_urls,
                   pr_store>>

PairNext ==
    \/ PairTick
    \/ \E i \in Invocations : PairBegin(i)
    \/ \E i \in Invocations : PairStatusProcessingReturns(i)
    \/ \E i \in Invocations : PairFetchReturns(i)
    \/ \E i \in Invocations : PairPdfReturns(i)
    \/ \E i \in Invocations : PairTiffReturns(i)
    \/ \E i \in Invocations : PairUploadPdfReturns(i)
    \/ \E i \in Invocations : PairUploadTiffReturns(i)
    \/ \E i \in Invocations : PairStatusCompletedReturns(i)
    \/ \E i \in Invocations : PairHandleException(i)

SpecPair ==
    PairInit /\ [][PairNext]_vars

\* ------------------------------------------------------------------------
\* sanitize_error_message on drawn messages
\* ------------------------------------------------------------------------
SanitizeInit ==
    /\ HandlerQuiet
    /\ AsmIdle
    /\ StackIdle
    /\ RasterIdle
    /\ NameIdle
    /\ LedgerIdle
    /\ PairIdle
    /\ \E pre \in MessagePrefixes, frag \in Fragments, suf \in MessageSuffixes :
          sn_in = Some([message |-> pre \o frag.text \o suf, fragment |-> frag])
    /\ sn_out = None

Sanitize ==
    /\ sn_in # None
    /\ sn_out = None
    /\ sn_out' = Some(sanitize_error_message(sn_in[1].message))
    /\ UNCHANGED <<handler_vars, asm_vars, stack_vars, raster_vars, name_vars,
                   ledger_vars, pair_vars, sn_in>>

SpecSanitize ==
    SanitizeInit /\ [][Sanitize]_vars

\* ------------------------------------------------------------------------
\* Properties of the handler (checked under Spec)
\* ------------------------------------------------------------------------
Last(s) ==
    s[Len(s)]

IsPdfStep(c) ==
    c.stage \in {"download", "gl_coding", "merge", "stamp"}

PdfStepNames ==
    <<"download", "gl_coding", "merge", "stamp">>

UploadStages ==
    {"upload_consolidated_pdf", "upload_tiff_image"}

ProducingStages ==
    {"download", "gl_coding", "merge", "stamp", "convert_pdf_to_tiff"}

\* C1: a validated invocation attempts exactly 'processing' and then exactly
\* one terminal update, 'completed' with both URLs or 'failed' with the
\* sanitised text of the error, and never 'failed' after 'completed'.
C1_StatusUpdateSequence ==
    /\ \A i, j \in DOMAIN status_log :
          i < j => ~(status_log[i].status = "completed" /\ status_log[j].status = "failed")
    /\ (pc = "done" /\ request_data # None) =>
          /\ Len(status_log) = 2
          /\ status_log[1].status = "processing"
          /\ \/ /\ status_log[2].status = "completed"
                /\ status_log[2].file_urls # None
                /\ status_log[2].file_urls[1].consolidatedPdf = consolidated_pdf_url[1]
                /\ status_log[2].file_urls[1].tiffImage = tiff_image_url[1]
             \/ /\ status_log[2].status = "failed"
                /\ exc # None
                /\ status_log[2].error_message = Some(sanitize_error_message(exc[1]))

\* C2: the four steps of PDFProcessor.process_documents run in the order
\* download, ledger page, merge, stamp, each at most once, each only after the
\* earlier ones returned; a failed step is the last stage of the invocation and
\* its exception is the one that propagates.
C2_PdfStepsInOrder ==
    LET steps == SelectSeq(calls, IsPdfStep) IN
    /\ Len(steps) <= Len(PdfStepNames)
    /\ \A i \in DOMAIN steps : steps[i].stage = PdfStepNames[i]
    /\ \A i \in DOMAIN steps : i < Len(steps) => steps[i].ok
    /\ (steps # <<>> /\ ~Last(steps).ok) =>
          /\ Last(calls) = Last(steps)
          /\ exc = Last(steps).error
          /\ consolidated_pdf = None
    /\ consolidated_pdf # None =>
          /\ Len(steps) = Len(PdfStepNames)
          /\ Last(steps).ok

\* C2 witness: the merge step failed after the first two steps returned
C2_Witness ==
    LET steps == SelectSeq(calls, IsPdfStep) IN
    /\ Len(steps) = 3
    /\ ~Last(steps).ok
    /\ pc = "done"

\* C4: an upload (or a local copy) happens only after the stamp step and the
\* rasterisation both returned, and an invocation in which a producing stage
\* failed stores nothing.
C4_NoArtifactUnlessBothProduced ==
    /\ \A i \in DOMAIN calls :
          calls[i].stage \in UploadStages \cup {"save_local"} =>
             /\ \E j \in 1..(i - 1) : calls[j] = Call("stamp", TRUE, None)
             /\ \E j \in 1..(i - 1) : calls[j] = Call("convert_pdf_to_tiff", TRUE, None)
             /\ consolidated_pdf # None
             /\ tiff_data # None
    /\ (\E i \in DOMAIN calls : calls[i].stage \in ProducingStages /\ ~calls[i].ok) =>
          /\ blobs = {}
          /\ local_files = {}
          /\ consolidated_pdf_url = None
          /\ tiff_image_url = None

\* C4 witness: the rasterisation failed and the invocation ended
C4_Witness ==
    /\ pc = "done"
    /\ consolidated_pdf # None
    /\ \E i \in DOMAIN calls : calls[i].stage = "convert_pdf_to_tiff" /\ ~calls[i].ok
    /\ blobs = {}

\* what the caller and the system of record are told about a failed invocation
FailureOutcome(rd, e) ==
    [response      |-> create_error_response(rd, MSG_INTERNAL, e, 500),
     error_message |-> Some(sanitize_error_message(e))]

\* C5: when the first upload succeeded and the second failed, the outcome is a
\* failure and differs from every outcome the handler gives when the first
\* upload fails and nothing is stored.
C5_PartialFailureDistinguishable ==
    (/\ pc = "done"
     /\ consolidated_pdf_url # None
     /\ Last(calls).stage = "upload_tiff_image"
     /\ ~Last(calls).ok) =>
        /\ ~response.success
        /\ response.status_code # 200
        /\ [response      |-> response,
            error_message |-> Last(status_log).error_message]
              \notin {FailureOutcome(request_data, e) : e \in UploadErrors}

\* the response of a validated invocation when no status update raises
ResponseWithoutStatusFailures ==
    IF tiff_image_url # None
    THEN create_success_response(WorkflowResult)
    ELSE create_error_response(request_data, MSG_INTERNAL, Last(calls).error[1], 500)

\* C6: a status update that raises changes neither the response nor the
\* artifacts: the response is the one given when every update succeeds.
C6_StatusFailureNeverChangesOutcome ==
    (/\ pc = "done"
     /\ request_data # None
     /\ calls # <<>>) =>
        response = ResponseWithoutStatusFailures

\* C7: a false validate_tiff_quality logs a warning and the workflow goes on
\* to the uploads as it does for a true one; with the later stages and the
\* 'completed' update succeeding the invocation answers 200.
C7_ValidationFailureNonFatal ==
    /\ [][(pc = "tiff_conversion" /\ Len(calls') = Len(calls) + 2) =>
             /\ Last(calls').stage = "validate_tiff_quality"
             /\ pc' = IF env.save_local THEN "save_local" ELSE "upload_pdf"
             /\ exc' = None
             /\ tiff_data' # None
             /\ (~Last(calls').ok => warnings' = Append(warnings, "tiff_quality"))
             /\ (Last(calls').ok => warnings' = warnings)]_vars
    /\ [](\A i \in DOMAIN calls :
             (/\ calls[i].stage = "validate_tiff_quality"
              /\ ~calls[i].ok
              /\ pc = "done"
              /\ \A j \in (i + 1)..Len(calls) : calls[j].ok
              /\ Last(status_log).status = "completed"
              /\ ~Last(status_log).raised) =>
                 /\ response.status_code = 200
                 /\ Cardinality(blobs) = 2)

\* C7 witness: validation was false and the invocation completed with 200
C7_Witness ==
    /\ pc = "done"
    /\ response.status_code = 200
    /\ \E i \in DOMAIN calls : calls[i].stage = "validate_tiff_quality" /\ ~calls[i].ok
    /\ Cardinality(blobs) = 2

\* no slash of the text starts a path or the host part of a URL
NoPathLeft(text) ==
    \A i \in DOMAIN text :
        text[i] = "/" => (i = Len(text) \/ text[i + 1] \in Whitespace)

\* what the parser and the validator say about a body they reject
RejectionTexts ==
    ValidationTexts \cup {MSG_EMPTY_BODY}

\* C16: an invocation that ends without a validated request - the body was
\* empty or failed validation - answers 400 with success = false and with
\* details that are the sanitized text of the rejection; it attempted no
\* status update, fetched nothing, produced nothing and stored nothing.
C16_InvalidBodyAnswered400 ==
    (pc = "done" /\ request_data = None) =>
        /\ response.status_code = 400
        /\ ~response.success
        /\ response.requestId = UNKNOWN_ID
        /\ response.details # None
        /\ \E raw \in RejectionTexts :
              response.details = Some(sanitize_error_message(raw))
        /\ NoPathLeft(response.details[1])
        /\ status_log = <<>>
        /\ calls = <<>>
        /\ complete_data = None
        /\ consolidated_pdf = None
        /\ tiff_data = None
        /\ blobs = {}
        /\ local_files = {}

\* C16 witness: a body was rejected by the validator with a text that names
\* a URL
C16_Witness ==
    /\ pc = "done"
    /\ request_data = None
    /\ response.status_code = 400
    /\ response.details = Some(sanitize_error_message(TXT_PATTERN))
    /\ response.details # Some(TXT_PATTERN)

\* a step of the invocation raised: an exception reached the except block
\* and it did not come from the 'completed' update
StepRaised ==
    /\ exc # None
    /\ \A k \in DOMAIN status_log : status_log[k].status # "completed"

\* the response is the 500 answer for the validated request
Answered500 ==
    /\ response.status_code = 500
    /\ ~response.success
    /\ response.requestId = request_data[1].requestId

\* the 200 answer is given only after every step returned
SuccessOnlyAfterAllSteps ==
    response.status_code = 200 =>
        /\ exc = None
        /\ \A k \in DOMAIN calls : calls[k].ok \/ calls[k].stage = "validate_tiff_quality"
        /\ \E k \in DOMAIN calls : calls[k] = Call("upload_consolidated_pdf", TRUE, None)
        /\ \E k \in DOMAIN calls : calls[k] = Call("upload_tiff_image", TRUE, None)

Slashes(text) ==
    Cardinality({i \in DOMAIN text : text[i] = "/"})

\* C19: the folder of an invocation is empty or ends in a slash; it is empty
\* exactly when the path of the invoice URL has at most two segments
\* (container and file name, or less), and otherwise it is the part of the
\* path between the container and the file name, with its final slash; both
\* artifacts are stored directly under that folder.
C19_FolderOfInvoiceUrl ==
    folder # None =>
        LET dir  == folder[1]
            path == Strip(UrlPath(complete_data[1].invoicePdfUrl), "/")
        IN  /\ dir = <<>> \/ dir[Len(dir)] = "/"
            /\ dir = <<>> <=> Slashes(path) <= 1
            /\ dir # <<>> =>
                  \E c \in DOMAIN path :
                      /\ path[c] = "/"
                      /\ Slashes(SubSeq(path, 1, c - 1)) = 0
                      /\ SubSeq(path, c + 1, c + Len(dir)) = dir
                      /\ Slashes(SubSeq(path, c + Len(dir) + 1, Len(path))) = 0
            /\ \A b \in blobs :
                  /\ StartsWith(b.name, dir)
                  /\ Slashes(b.name) = Slashes(dir)
            /\ consolidated_pdf_url # None =>
                  StartsWith(consolidated_pdf_url[1].blob_name, dir)
            /\ tiff_image_url # None =>
                  StartsWith(tiff_image_url[1].blob_name, dir)

\* C19 witness: both artifacts of an invocation were stored under a folder
\* taken from an invoice URL that carries a query
C19_Witness ==
    /\ pc = "done"
    /\ folder # None
    /\ folder[1] # <<>>
    /\ complete_data[1].invoicePdfUrl = URL_QUERY
    /\ Cardinality(blobs) = 2
    /\ tiff_image_url # None

\* the fixed texts the handler puts into the error field of a response
ErrorTitles ==
    {MSG_PARSE_FAILED, MSG_INVALID_FORMAT, MSG_INTERNAL}

\* C20: the error field and the details field of every error response, and
\* the error message of every 'failed' status update, are results of
\* sanitize_error_message: the error is a sanitized title, the details of a
\* 400 are the sanitized text of the rejection and a 500 carries no details,
\* the message of a 'failed' update is the sanitized text of the exception
\* that was caught, and none of them still holds a path.
C20_ErrorTextsSanitized ==
    /\ (pc = "done" /\ ~response.success) =>
          /\ response.error # None
          /\ response.error[1] \in {sanitize_error_message(t) : t \in ErrorTitles}
          /\ NoPathLeft(response.error[1])
          /\ IF response.status_code = 400
             THEN /\ response.details # None
                  /\ response.details[1] \in
                        {sanitize_error_message(t) : t \in RejectionTexts}
                  /\ NoPathLeft(response.details[1])
             ELSE response.details = None
    /\ \A i \in DOMAIN status_log :
          IF status_log[i].status = "failed"
          THEN /\ exc # None
               /\ status_log[i].error_message = Some(sanitize_error_message(exc[1]))
               /\ NoPathLeft(status_log[i].error_message[1])
          ELSE status_log[i].error_message = None

\* C20 witness: an exception whose text holds a path was caught and answered:
\* the 'failed' update carries a text other than the raised one
C20_Witness ==
    /\ pc = "done"
    /\ response.status_code = 500
    /\ exc # None
    /\ exc[1] = TXT_PATH
    /\ status_log # <<>>
    /\ Last(status_log).status = "failed"
    /\ Last(status_log).error_message # Some(exc[1])

\* the stages that wrap the failure of their library into a message of their own
WrappingStages ==
    {"gl_coding", "merge", "stamp", "convert_pdf_to_tiff"}

\* text holds the fragment somewhere
Contains(text, fragment) ==
    \E i \in 1..Len(text) : PrefixAt(text, i, fragment)

\* C21: the message a wrapping stage raises holds nothing of the text of the
\* library exception underneath it, neither when it reaches the caller of
\* the stage nor in the 'failed' status update that follows.
C21_StageMessagesOpaque ==
    /\ \A i \in DOMAIN calls :
          (calls[i].stage \in WrappingStages /\ ~calls[i].ok) =>
              \A e \in LibTexts : ~Contains(calls[i].error[1], e)
    /\ \A i \in DOMAIN status_log :
          (/\ status_log[i].status = "failed"
           /\ calls # <<>>
           /\ Last(calls).stage \in WrappingStages) =>
              \A e \in LibTexts : ~Contains(status_log[i].error_message[1], e)

\* C26: every URL an upload returned, every URL of a 'completed' status
\* update and every URL of a 200 response carries a SAS token.
C26_ReportedUrlsCarryToken ==
    /\ consolidated_pdf_url # None => consolidated_pdf_url[1].sas_token # None
    /\ tiff_image_url # None => tiff_image_url[1].sas_token # None
    /\ \A i \in DOMAIN status_log :
          status_log[i].status = "completed" =>
              /\ status_log[i].file_urls[1].consolidatedPdf.sas_token # None
              /\ status_log[i].file_urls[1].tiffImage.sas_token # None
    /\ (pc = "done" /\ response.success) =>
          /\ response.generatedFiles[1].consolidatedPdf.sas_token # None
          /\ response.generatedFiles[1].tiffImage.sas_token # None

\* the calls of the stage that returned, by position in calls
Returned(stage) ==
    {k \in DOMAIN calls : calls[k].stage = stage /\ calls[k].ok}

\* C28: a 'completed' status update is attempted only when both uploads of
\* the invocation have returned, the PDF upload before the archive upload;
\* the update and the 200 response carry the URL the PDF upload returned as
\* consolidatedPdf and the URL the archive upload returned as tiffImage.
C28_CompletedCarriesBothUploads ==
    /\ \A i \in DOMAIN status_log :
          status_log[i].status = "completed" =>
              /\ \E a \in Returned("upload_consolidated_pdf") :
                 \E b \in Returned("upload_tiff_image") : a < b
              /\ consolidated_pdf_url # None
              /\ tiff_image_url # None
              /\ consolidated_pdf_url[1].blob_name =
                     generate_blob_name(request_id, "consolidated_pdf",
                                        timestamp[1], folder[1]).value
              /\ tiff_image_url[1].blob_name =
                     generate_blob_name(request_id, "tiff_image",
                                        timestamp[1], folder[1]).value
              /\ status_log[i].file_urls =
                     Some([consolidatedPdf |-> consolidated_pdf_url[1],
                           tiffImage       |-> tiff_image_url[1]])
    /\ (pc = "done" /\ response.success) =>
          /\ status_log # <<>>
          /\ Last(status_log).status = "completed"
          /\ response.generatedFiles =
                 Some([consolidatedPdf |-> consolidated_pdf_url[1],
                       tiffImage       |-> tiff_image_url[1]])

\* C28 witness: an invocation answered 200 after its 'completed' update
C28_Witness ==
    /\ pc = "done"
    /\ response.success
    /\ Last(status_log).status = "completed"
    /\ consolidated_pdf_url[1] # tiff_image_url[1]

\* ------------------------------------------------------------------------
\* Properties of the assembly (checked under SpecAssembly)
\* ------------------------------------------------------------------------
\* C3: for an invoice of N >= 1 pages and an addendum of M >= 0 pages the
\* assembled document has N + M pages: the invoice pages 1..N in their order,
\* then the addendum pages in their order.
C3_PageCountAndOrder ==
    (asm_out # None /\ Len(asm_in[1].invoice_pdf) >= 1) =>
        LET n   == Len(asm_in[1].invoice_pdf)
            m   == Len(asm_in[1].signature_pdf)
            out == asm_out[1]
        IN  /\ Len(out) = n + m
            /\ \A i \in 1..n : /\ out[i].src = "invoice"
                               /\ out[i].idx = i
                               /\ out[i].box = asm_in[1].invoice_pdf[i].box
            /\ \A j \in 1..m : /\ out[n + j].src = "ledger"
                               /\ out[n + j].idx = j
                               /\ out[n + j].box = asm_in[1].signature_pdf[j].box

\* C3 witness: a two-page invoice and a two-page addendum were assembled
C3_Witness ==
    /\ asm_out # None
    /\ Len(asm_in[1].invoice_pdf) = 2
    /\ Len(asm_in[1].signature_pdf) = 2
    /\ Len(asm_out[1]) = 4

\* the vertical range a stamp's text occupies: drawString runs along the
\* x axis of the rotated canvas, upwards for 90 degrees, downwards for 270
StampLow(st) ==
    IF st.rotation = 90 THEN st.y_start ELSE st.y_start - st.text_width

StampHigh(st) ==
    IF st.rotation = 90 THEN st.y_start + st.text_width ELSE st.y_start

\* C8: on either side, a text no wider than the page height minus the two
\* margins is drawn entirely between the bottom margin and the top margin.
C8_StampTextWithinMargins ==
    (asm_out # None /\ asm_out[1] # <<>>) =>
        \A k \in DOMAIN asm_out[1][1].overlays :
            LET st == asm_out[1][1].overlays[k] IN
            st.text_width <= PageHeight - 2 * min_y =>
                /\ StampLow(st) >= min_y
                /\ StampHigh(st) <= PageHeight - min_y

\* C9: for every text width and either side the start position lies between
\* the bottom margin and the top margin.
C9_StartPositionWithinMargins ==
    (asm_out # None /\ asm_out[1] # <<>>) =>
        \A k \in DOMAIN asm_out[1][1].overlays :
            /\ asm_out[1][1].overlays[k].y_start >= min_y
            /\ asm_out[1][1].overlays[k].y_start <= PageHeight - min_y

\* C23: the stamped document has the pages of the document handed in, in
\* the same number and positions; page 1 is that page with the stamp merged
\* on it and every later page is the page handed in; a call that raised
\* returned no document.
C23_StampChangesPageOneOnly ==
    /\ asm_out # None =>
          LET pdf_data == merge_pdfs(asm_in[1].invoice_pdf, asm_in[1].signature_pdf)
              stamped  == asm_out[1]
          IN  /\ Len(stamped) = Len(pdf_data)
              /\ \A i \in 2..Len(pdf_data) : stamped[i] = pdf_data[i]
              /\ pdf_data # <<>> =>
                    /\ stamped[1] # pdf_data[1]
                    /\ [stamped[1] EXCEPT !.overlays = <<>>] = pdf_data[1]
    /\ asm_err # None => asm_out = None

\* C23 witness: a document of four pages was stamped
C23_Witness ==
    /\ asm_out # None
    /\ Len(asm_in[1].invoice_pdf) = 2
    /\ Len(asm_in[1].signature_pdf) = 2
    /\ asm_out[1][1].overlays # <<>>
    /\ asm_out[1][4].overlays = <<>>

\* ------------------------------------------------------------------------
\* Properties of the stacking (checked under SpecStack)
\* ------------------------------------------------------------------------
\* the sum of f[1..n], added from the last element down
RECURSIVE SumTo(_, _)
SumTo(f, n) ==
    IF n = 0 THEN 0 ELSE f[n] + SumTo(f, n - 1)

\* C10: for a non-empty sequence of images the stacked image is as high as
\* the heights add up to and as wide as the widest image; image i is pasted at
\* the left offset floor((width - w_i) / 2) and lies inside the canvas.
C10_StackedImageGeometry ==
    (stack_out # None /\ stack_in[1] # <<>>) =>
        LET images == stack_in[1]
            r      == stack_out[1]
        IN  /\ r.ok
            /\ r.value.height = SumTo([i \in DOMAIN images |-> images[i].height],
                                      Len(images))
            /\ \A i \in DOMAIN images : images[i].width <= r.value.width
            /\ \E i \in DOMAIN images : images[i].width = r.value.width
            /\ Len(r.value.pastes) = Len(images)
            /\ \A i \in DOMAIN images :
                  LET paste == r.value.pastes[i] IN
                  /\ paste.image = images[i]
                  /\ 2 * paste.x <= r.value.width - images[i].width
                  /\ r.value.width - images[i].width <= 2 * paste.x + 1
                  /\ paste.x >= 0
                  /\ paste.x + images[i].width <= r.value.width
                  /\ paste.y >= 0
                  /\ paste.y + images[i].height <= r.value.height

\* C10 witness: three images were stacked, one of them narrower than the
\* canvas by an odd number of pixels
C10_Witness ==
    /\ stack_out # None
    /\ Len(stack_in[1]) = 3
    /\ stack_out[1].ok
    /\ \E i \in DOMAIN stack_in[1] :
          (stack_out[1].value.width - stack_in[1][i].width) % 2 = 1

\* the text contains the words "No images"
SaysNoImages(text) ==
    IndexOf(text, <<"N", "o", " ", "i", "m", "a", "g", "e", "s">>, 1) > 0

\* C12: for the empty image sequence each of combine_images_vertically,
\* images_to_singlepage_tiff and images_to_tiff raises an error that says
\* "No images", and none of them returns a value.
C12_EmptySequenceRejected ==
    (stack_in # None /\ stack_in[1] = <<>>) =>
        /\ stack_out # None =>
              ~stack_out[1].ok /\ SaysNoImages(stack_out[1].error)
        /\ stack_single # None =>
              ~stack_single[1].ok /\ SaysNoImages(stack_single[1].error)
        /\ stack_tiff # None =>
              ~stack_tiff[1].ok /\ SaysNoImages(stack_tiff[1].error)

\* C12 witness: all three operations were applied to the empty sequence
C12_Witness ==
    /\ stack_in = Some(<<>>)
    /\ stack_out # None
    /\ stack_single # None
    /\ stack_tiff # None

C13_NoPagesNoArchive ==
    /\ [][(rs_pc = "check" /\ rs_images = <<>>) =>
             /\ rs_result' = Some(Raise(MSG_NO_PAGES))
             /\ rs_pc' = "done"
             /\ rs_calls' = rs_calls]_vars
    /\ []((rs_pc \in {"check", "encode", "close_images", "validate",
                      "validate_checks", "done"} /\ rs_images = <<>>) =>
             /\ \A k \in DOMAIN rs_calls : rs_calls[k] # "images_to_tiff"
             /\ rs_result # None => ~rs_result[1].ok)

\* C13 witness: a document without pages was opened and the call ended with
\* the "no pages" error
C13_Witness ==
    /\ rs_pc = "done"
    /\ rs_pdf = <<>>
    /\ rs_result = Some(Raise(MSG_NO_PAGES))

\* C14: validate_tiff_quality ends with a boolean on every input: true
\* exactly when the bytes decode as an image with format TIFF and colour
\* mode RGB, false otherwise, also for bytes that cannot be decoded.
C14_ValidationIsTotalAndExact ==
    /\ rs_valid # None =>
          /\ rs_valid[1] \in BOOLEAN
          /\ rs_valid[1] <=> (/\ rs_decoded[1].opens
                              /\ rs_decoded[1].format = "TIFF"
                              /\ rs_decoded[1].mode = "RGB")
    /\ (rs_pc = "done" /\ rs_calls # <<>>
          /\ rs_calls[Len(rs_calls)] = "validate_tiff_quality") =>
          rs_valid # None

\* C14 witness: a TIFF whose colour mode is not RGB was validated and gave
\* false
C14_Witness ==
    /\ rs_pc = "done"
    /\ rs_decoded[1].opens
    /\ rs_decoded[1].format = "TIFF"
    /\ rs_decoded[1].mode # "RGB"
    /\ rs_valid = Some(FALSE)

\* C15: whenever the calls have ended - by a return, by a false result or by
\* an error raised while opening, rendering, encoding or validating - every
\* document handle and every image opened during them has been closed.
C15_HandlesClosedAtExit ==
    rs_pc = "done" => rs_open = {}

\* C25: the images are the pages of the document in page order, and in the
\* frame of the archive page i lies at the vertical offset that the heights
\* of the pages before it add up to: the regions of the pages do not overlap,
\* follow one another from the top in page order and end at the height of
\* the frame.
C25_StackKeepsPageOrder ==
    /\ \A i \in DOMAIN rs_images : rs_images[i] = RenderPage(rs_pdf[i])
    /\ (rs_result # None /\ rs_result[1].ok) =>
          LET frame  == rs_result[1].value.frame
              n      == Len(rs_pdf)
              height == [i \in 1..n |-> RenderPage(rs_pdf[i]).height]
          IN  /\ Len(frame) = n
              /\ \A i \in 1..n :
                    /\ frame[i].image = RenderPage(rs_pdf[i])
                    /\ frame[i].y = SumTo(height, i - 1)
              /\ \A i \in 1..n, j \in 1..n :
                    i < j => frame[i].y + height[i] <= frame[j].y
              /\ frame[n].y + height[n] = rs_result[1].value.size[2]

\* C25 witness: a document of two pages of different sizes was encoded
C25_Witness ==
    /\ rs_result # None
    /\ rs_result[1].ok
    /\ Len(rs_pdf) = 2
    /\ RenderPage(rs_pdf[1]).height # RenderPage(rs_pdf[2]).height
    /\ rs_result[1].value.frame[2].y > 0

\* ------------------------------------------------------------------------
\* Properties of the naming (checked under SpecNames)
\* ------------------------------------------------------------------------
\* a folder argument without the slash it may end in
WithoutTrailingSlash(dir) ==
    IF dir # <<>> /\ dir[Len(dir)] = "/" THEN SubSeq(dir, 1, Len(dir) - 1) ELSE dir

\* C18: the blob name is requestId_consolidated_timestamp.pdf for the
\* consolidated PDF and requestId_document_timestamp.tiff for the raster
\* archive; a non-empty folder is put in front of it with exactly one slash
\* between them, whether or not the folder argument ends in a slash; any
\* other file type raises the "Unknown file type" error.
C18_BlobNameConvention ==
    nm_blob # None =>
        LET a    == nm_in[1]
            r    == nm_blob[1]
            file == IF a.file_type = "consolidated_pdf"
                    THEN a.request_id \o LIT_CONSOLIDATED \o a.timestamp \o EXT_PDF
                    ELSE a.request_id \o LIT_DOCUMENT \o a.timestamp \o EXT_TIFF
        IN  IF a.file_type \in {"consolidated_pdf", "tiff_image"}
            THEN /\ r.ok
                 /\ IF a.folder = <<>>
                    THEN r.value = file
                    ELSE /\ r.value = WithoutTrailingSlash(a.folder) \o <<"/">> \o file
                         /\ Slashes(r.value) = Slashes(WithoutTrailingSlash(a.folder)) + 1
            ELSE /\ ~r.ok
                 /\ StartsWith(r.error, MSG_UNKNOWN_TYPE)

\* C18 witness: a name was generated for the raster archive under a folder
\* given without a trailing slash
C18_Witness ==
    /\ nm_blob # None
    /\ nm_in[1].file_type = "tiff_image"
    /\ nm_in[1].folder = FOLDER_OPEN
    /\ nm_blob[1].ok

\* ------------------------------------------------------------------------
\* Properties of the ledger page (checked under SpecLedger)
\* ------------------------------------------------------------------------
\* the sum of the amounts as a real number, nothing rounded
RECURSIVE ExactSum(_)
ExactSum(entries) ==
    IF entries = <<>> THEN FloatZero
    ELSE LET rest == ExactSum(SubSeq(entries, 1, Len(entries) - 1))
             last == entries[Len(entries)].amount
         IN  [mills |-> rest.mills + last.mills, err |-> rest.err + last.err]

\* the numbers of cents that are x to two decimal places: the nearest one,
\* and both neighbours when x lies exactly half way
NearestCents(x) ==
    LET q == x.mills \div 10
        r == x.mills % 10
    IN  IF r < 5 THEN {q}
        ELSE IF r > 5 THEN {q + 1}
        ELSE IF x.err > 0 THEN {q + 1}
        ELSE IF x.err < 0 THEN {q}
        ELSE {q, q + 1}

\* C22: the total a ledger page shows is the sum of the amounts of the
\* line items of that call, to two decimal places.
C22_TotalIsSumOfLineItems ==
    ld_page # None => ld_page[1].total \in NearestCents(ExactSum(ld_in[1]))


\* ------------------------------------------------------------------------
\* Properties of two invocations (checked under SpecPair)
\* ------------------------------------------------------------------------
\* the tracker an invocation has when its own timing calls, at the times it
\* made them, are the only ones made on it
RECURSIVE ReplayLog(_)
ReplayLog(log) ==
    IF log = <<>> THEN EmptyTracker
    ELSE LET tracker == ReplayLog(SubSeq(log, 1, Len(log) - 1))
             c       == log[Len(log)]
         IN  IF c.kind = "start" THEN start_timing(tracker, c.stage, c.at)
             ELSE end_timing(tracker, c.stage, c.at)

\* the URLs the two uploads of invocation i return for its own request,
\* timestamp and folder
OwnUrls(i) ==
    [k \in 1..2 |->
        generate_sas_url(
            generate_blob_name(pr_req[i], <<"consolidated_pdf", "tiff_image">>[k],
                               FormatTimestamp(pr_ts[i][1]),
                               extract_folder_from_url(URL_BLOB)).value,
            TRUE)]

\* C24: under every interleaving each invocation holds a tracker no other
\* invocation holds, the state of that tracker is what the invocation's own
\* timing calls make of a new tracker, and a 200 response carries the
\* performance data and the URLs the invocation produces when run alone with
\* the same replies and the same readings of the clock.
C24_InvocationsShareNoState ==
    \A i \in Invocations :
        /\ pr_tracker[i] # None =>
              /\ pr_heap[pr_tracker[i][1]] = ReplayLog(pr_log[i])
              /\ \A j \in Invocations \ {i} : pr_tracker[j] # pr_tracker[i]
        /\ (pr_response[i] # None /\ pr_response[i][1].status_code = 200) =>
              /\ pr_response[i][1].performance =
                     Some(get_performance_data(ReplayLog(pr_log[i])))
              /\ pr_response[i][1].generatedFiles = OwnUrls(i)

\* C24 witness: two invocations for different requests both answered 200
\* and both measured time passing
C24_Witness ==
    /\ pr_req[1] # pr_req[2]
    /\ \A i \in Invocations :
          /\ pr_response[i] # None
          /\ pr_response[i][1].status_code = 200
          /\ pr_response[i][1].performance[1].totalTime > 0
          /\ pr_log[i][1].at = 0

\* the blob names of the URLs returned to invocation i
UploadedNames(i) ==
    {pr_urls[i][k].blob_name : k \in DOMAIN pr_urls[i]}

\* C29: two invocations never upload under the same blob name, and the blobs
\* named in a 200 response hold what that invocation uploaded.
C29_NoBlobNameShared ==
    \A i \in Invocations :
        /\ \A j \in Invocations \ {i} : UploadedNames(i) \cap UploadedNames(j) = {}
        /\ (pr_response[i] # None /\ pr_response[i][1].status_code = 200) =>
              \A k \in DOMAIN pr_response[i][1].generatedFiles :
                  \E b \in pr_store :
                      /\ b.name = pr_response[i][1].generatedFiles[k].blob_name
                      /\ b.content[1] = i

\* the times of the timing calls of a log
LogTimes(log) ==
    {log[k].at : k \in DOMAIN log}

\* C30: when an invocation has left all its stage blocks, every stage it
\* started has a duration recorded, and the total of its tracker is at most
\* the time between its first and its last timing call.
C30_StagesRecordedTotalBounded ==
    \A i \in Invocations :
        pr_tracker[i] # None =>
            LET tracker == pr_heap[pr_tracker[i][1]] IN
            /\ pr_pc[i] \in {"except", "done"} =>
                  DOMAIN tracker.timings = DOMAIN tracker.start_times
            /\ \A first \in LogTimes(pr_log[i]), last \in LogTimes(pr_log[i]) :
                  (/\ \A t \in LogTimes(pr_log[i]) : first <= t /\ t <= last) =>
                      get_total_time(tracker) <= last - first

\* ------------------------------------------------------------------------
\* Properties of the sanitisation (checked under SpecSanitize)
\* ------------------------------------------------------------------------
\* no letter followed by a colon and a backslash is in the text
NoDriveLeft(text) ==
    \A i \in DOMAIN text :
        ~(text[i] \in Letters /\ PrefixAt(text, i + 1, <<":", "\\">>))

\* C27: the output of sanitize_error_message holds no part of a path, of a
\* URL that is not a blob-storage URL, or of an account key that the message
\* carried, and no drive prefix and no '/'-rooted run is left in it.
C27_NothingOfSecretsLeft ==
    sn_out # None =>
        /\ \A piece \in sn_in[1].fragment.pieces : ~Contains(sn_out[1], piece)
        /\ NoDriveLeft(sn_out[1])
        /\ NoPathLeft(sn_out[1])


====
